---- MODULE Spec2Model ----
(***************************************************************************)
(* Model of the TestDevice virtual LED device (script/TestDevice):         *)
(*   app/core/config.py   - topology validation                            *)
(*   app/core/runtime.py  - DeviceRuntime: address space, double buffers,  *)
(*                          frame reassembly, render buffers               *)
(*   app/services/virtual_device.py - VirtualDeviceServer: life cycle,     *)
(*                          datagram dispatch, replies, receive loop       *)
(* Optional values (Python None / Optional[int]) are sets with at most one *)
(* element: None is {}, a present value x is {x}.  Byte buffers are        *)
(* sequences of numbers; Python's 0-based offset k is position k+1.        *)
(* The two bytearrays of the runtime are objects 0 and 1 of `buffers`;     *)
(* front_buffer and back_buffer hold references (0 or 1) to them.          *)
(***************************************************************************)
EXTENDS Integers, Sequences, FiniteSets, TLC

VARIABLES
    config,                    \* DeviceConfig.outputs: sequence of OutputConfig
    phase,                     \* "new" | "ready" | "failed": DeviceRuntime.__init__
    outputs,                   \* DeviceRuntime.outputs: sequence of OutputRuntime
    total_leds,                \* DeviceRuntime.total_leds
    canvas_width,              \* DeviceRuntime.canvas_width
    canvas_height,             \* DeviceRuntime.canvas_height
    buffer_size,               \* DeviceRuntime.buffer_size
    buffers,                   \* the two bytearray objects
    front_buffer,              \* reference held by DeviceRuntime.front_buffer
    back_buffer,               \* reference held by DeviceRuntime.back_buffer
    dirty,                     \* DeviceRuntime.dirty
    current_frame_id,          \* DeviceRuntime.current_frame_id (Optional)
    frame_fragments_received,  \* DeviceRuntime.frame_fragments_received
    frame_total_fragments,     \* DeviceRuntime.frame_total_fragments
    call,                      \* history: the last runtime call and what it did
    run,                       \* history: the fragments delivered since the frame id last changed
    buffer_lock,               \* DeviceRuntime.buffer_lock: the thread holding it (Optional)
    pc,                        \* per thread: the statement it is at inside a runtime call
    loc,                       \* per thread: the arguments and locals of its call
    owed,                      \* history: what set dirty since consume_dirty last read it
    consumed,                  \* history: the last finished consume_dirty
    whole,                     \* history: the front buffer when the last call finished
    snap,                      \* history: `whole` when the running fill_output_buffers began
    arg,                       \* the value handed to the validator or to one of its steps
    stage,                     \* "input" | "parsed" | "encoded" | "reparsed"
    parsed,                    \* what the validator returned for arg, or its failure
    encoded,                   \* device_config_to_dict of the parsed config
    reparsed,                  \* what the validator returned for encoded
    running,                   \* VirtualDeviceServer._running
    udp_socket,                \* VirtualDeviceServer._udp_socket (Optional: index into sockets)
    thread,                    \* VirtualDeviceServer._thread (Optional: index into threads)
    zeroconf,                  \* VirtualDeviceServer._zeroconf is set
    service_info,              \* VirtualDeviceServer._service_info is set
    sockets,                   \* the sockets created so far: "open" | "bound" | "closed"
    threads,                   \* the receive threads started so far: "alive" | "exited"
    registrations,             \* the number of register_service calls made so far
    log,                       \* the messages handed to on_log so far
    port_free,                 \* environment: no other process holds the UDP port
    srv,                       \* history: the last start() or stop() and the state it found
    properties,                \* the width and height properties last given to ServiceInfo
    runtime_pixel_size,        \* DeviceRuntime.pixel_size
    config_payload,            \* VirtualDeviceServer._config_payload: [len, salt] (see ByteAt)
    config_msg_id,             \* VirtualDeviceServer._config_msg_id
    rx,                        \* history: the last datagram handled and what handling it did
    answered,                  \* history: the QUERY_CONFIG requests that took a message id
    inbox,                     \* the datagrams queued at the UDP port, oldest first
    udp_loop,                  \* the receive thread's position in _udp_loop and its locals
    outbox,                    \* history: <<messageId, fragmentIndex>> of the config fragments sent
    arrived,                   \* history: the datagrams that arrived at the port
    taken,                     \* history: the datagrams recvfrom returned
    errors,                    \* history: the exceptions raised while a datagram was processed
    stopping,                  \* the owning thread's position in stop() and what it found
    need_refresh               \* VirtualLEDDevice.need_refresh (virtual_led_device.py)

progVars == <<config, phase, outputs, total_leds, canvas_width, canvas_height,
              buffer_size, buffers, front_buffer, back_buffer, dirty,
              current_frame_id, frame_fragments_received, frame_total_fragments>>
builtVars == <<config, phase, outputs, total_leds, canvas_width, canvas_height, buffer_size>>
frameVars == <<current_frame_id, frame_fragments_received, frame_total_fragments>>
bufVars == <<buffers, front_buffer, back_buffer>>
concVars == <<buffer_lock, pc, loc, owed, consumed, whole, snap, need_refresh>>
parseVars == <<arg, stage, parsed, encoded, reparsed>>
serverVars == <<running, udp_socket, thread, zeroconf, service_info, sockets, threads,
                registrations, log, port_free, srv, properties>>
netVars == <<runtime_pixel_size, config_payload, config_msg_id, rx, answered>>
loopVars == <<inbox, udp_loop, outbox, arrived, taken, errors, stopping>>
extVars == <<parseVars, serverVars, netVars, loopVars>>
vars == <<progVars, call, run, concVars, extVars>>

---------------------------------------------------------------------------
(* Bounds of the model.                                                    *)

MaxOutputs == 2
MaxLen == 3
MaxCells == 2
MaxFrameId == 1
MaxTotal == 2
MaxIndex == 2
MaxUpdates == 2
MaxPixel == 2
MaxSwaps == 2

---------------------------------------------------------------------------
(* Program constants.                                                      *)

LINEAR_DISPLAY_HEIGHT == 1
OUTPUT_GAP == 2

None == {}
Some(x) == {x}
Get(opt) == CHOOSE x \in opt : TRUE

Max(a, b) == IF a >= b THEN a ELSE b
Min(a, b) == IF a <= b THEN a ELSE b

Zeros(n) == [i \in 1..n |-> 0]

---------------------------------------------------------------------------
(* config.py: matrix map validation.                                       *)

\* The largest non-null entry of the map among its first k entries (None if none).
RECURSIVE MaxIdx(_, _)
MaxIdx(map, k) ==
    IF k = 0 THEN None
    ELSE LET rest == MaxIdx(map, k - 1)
             opt == map[k]
         IN IF opt = None THEN rest
            ELSE IF rest = None THEN opt ELSE Some(Max(Get(rest), Get(opt)))

\* Mutation of SeenPass: an entry already seen is not refused.
RECURSIVE SeenPassNoDup(_, _, _)
SeenPassNoDup(map, k, leds_count) ==
    IF k = 0 THEN [ok |-> TRUE, seen |-> {}]
    ELSE LET prev == SeenPassNoDup(map, k - 1, leds_count)
             opt == map[k]
         IN IF ~prev.ok \/ opt = None THEN prev
            ELSE IF Get(opt) >= leds_count
                 THEN [ok |-> FALSE, seen |-> prev.seen]
                 ELSE [ok |-> TRUE, seen |-> prev.seen \cup opt]

\* The second pass over the first k entries: [ok, seen]; ok is FALSE once an
\* entry is out of range or already seen.
RECURSIVE SeenPass(_, _, _)
SeenPass(map, k, leds_count) ==
    IF k = 0 THEN [ok |-> TRUE, seen |-> {}]
    ELSE LET prev == SeenPass(map, k - 1, leds_count)
             opt == map[k]
         IN IF ~prev.ok \/ opt = None THEN prev
            ELSE IF Get(opt) >= leds_count \/ Get(opt) \in prev.seen
                 THEN [ok |-> FALSE, seen |-> prev.seen]
                 ELSE [ok |-> TRUE, seen |-> prev.seen \cup opt]

\* Mutation of HasGap: a missing index is not noticed.
HasGapNever(seen, leds_count) == FALSE

\* config.py line 95: some index below leds_count was never seen.
HasGap(seen, leds_count) == \E v \in 0..(leds_count - 1) : v \notin seen

\* leds_count_from_matrix_map: Some(leds_count), or None where the code raises ValueError.
leds_count_from_matrix_map(m) ==
    IF m.width <= 0 \/ m.height <= 0 THEN None
    ELSE IF Len(m.map) # m.width * m.height THEN None
    ELSE IF \E k \in 1..Len(m.map) : m.map[k] # None /\ Get(m.map[k]) < 0 THEN None
    ELSE LET max_idx == MaxIdx(m.map, Len(m.map))
         IN IF max_idx = None THEN None
            ELSE LET leds_count == Get(max_idx) + 1
                     pass == SeenPass(m.map, Len(m.map), leds_count)
                 IN IF ~pass.ok THEN None
                    ELSE IF HasGap(pass.seen, leds_count) THEN None
                    ELSE Some(leds_count)

---------------------------------------------------------------------------
(* The configurations the validator produces (OutputConfig values).        *)

SingleOutput == [output_type |-> "Single", leds_count |-> 1, matrix |-> None]
LinearOutput(n) == [output_type |-> "Linear", leds_count |-> n, matrix |-> None]
MatrixOutput(m) ==
    [output_type |-> "Matrix", leds_count |-> Get(leds_count_from_matrix_map(m)),
     matrix |-> Some(m)]

MatrixMaps ==
    UNION { { [width |-> w, height |-> h, map |-> mp] :
                mp \in [1..(w * h) -> {None} \cup {Some(v) : v \in 0..(w * h - 1)}] } :
            <<w, h>> \in { wh \in (1..MaxCells) \X (1..MaxCells) : wh[1] * wh[2] <= MaxCells } }

ValidMatrixMaps == { m \in MatrixMaps : leds_count_from_matrix_map(m) # None }

OutputShapes ==
    {SingleOutput} \cup { LinearOutput(n) : n \in 1..MaxLen }
                   \cup { MatrixOutput(m) : m \in ValidMatrixMaps }

\* Output ids are unique within a config: the output at position k has id k.
WithIds(shapes) ==
    [k \in 1..Len(shapes) |->
        [id |-> k, output_type |-> shapes[k].output_type,
         leds_count |-> shapes[k].leds_count, matrix |-> shapes[k].matrix]]

ValidConfigs ==
    { WithIds(s) : s \in UNION { [1..n -> OutputShapes] : n \in 1..MaxOutputs } }

---------------------------------------------------------------------------
(* runtime.py: construction of the runtime from a config.                  *)

\* Mutation of GlobalOfCell: the output's offset is not added.
GlobalOfCellNoOffset(offset, opt) == opt

\* The global LED index of a matrix cell mapped to `opt` (runtime.py line 92).
GlobalOfCell(offset, opt) == offset + opt

\* _build_output_runtime: the OutputRuntime of one output.
build_output_runtime(out, offset, top) ==
    IF out.output_type = "Matrix" THEN
        LET m == Get(out.matrix)
            vw == m.width
            vh == m.height
        IN [id |-> out.id, output_type |-> out.output_type,
            leds_count |-> out.leds_count, offset |-> offset,
            virtual_width |-> vw, virtual_height |-> vh,
            virtual_to_global |->
                [k \in 1..Len(m.map) |->
                    IF m.map[k] = None THEN None
                    ELSE Some(GlobalOfCell(offset, Get(m.map[k])))],
            render_buffer |-> Zeros(vw * vh * 3), top |-> top, left |-> 0]
    ELSE IF out.output_type = "Linear" THEN
        LET vw == out.leds_count
            vh == LINEAR_DISPLAY_HEIGHT
        IN [id |-> out.id, output_type |-> out.output_type,
            leds_count |-> out.leds_count, offset |-> offset,
            virtual_width |-> vw, virtual_height |-> vh,
            virtual_to_global |-> [i \in 1..vw |-> Some(offset + (i - 1))],
            render_buffer |-> Zeros(vw * vh * 3), top |-> top, left |-> 0]
    ELSE
        [id |-> out.id, output_type |-> out.output_type,
         leds_count |-> 1, offset |-> offset,
         virtual_width |-> 1, virtual_height |-> 1,
         virtual_to_global |-> <<Some(offset)>>,
         render_buffer |-> Zeros(3), top |-> top, left |-> 0]

\* Mutation of NextOffset: a matrix advances the offset by its cells, not its LEDs.
NextOffsetByCells(offset, out) ==
    offset + (IF out.matrix = None THEN out.leds_count ELSE Len(Get(out.matrix).map))

\* The running offset after an output (runtime.py line 67).
NextOffset(offset, out) == offset + out.leds_count

\* The locals of the loop of _build_outputs_runtime after its first k iterations.
RECURSIVE BuildLoop(_, _)
BuildLoop(cfg, k) ==
    IF k = 0 THEN [outputs |-> <<>>, offset |-> 0, top |-> 0, max_w |-> 1]
    ELSE LET prev == BuildLoop(cfg, k - 1)
             out == cfg[k]
             runtime == build_output_runtime(out, prev.offset, prev.top)
         IN [outputs |-> Append(prev.outputs, runtime),
             offset |-> NextOffset(prev.offset, out),
             top |-> prev.top + runtime.virtual_height + OUTPUT_GAP,
             max_w |-> Max(prev.max_w, runtime.virtual_width)]

\* _build_outputs_runtime on a non-empty config: the fields it assigns.
build_outputs_runtime(cfg) ==
    LET fin == BuildLoop(cfg, Len(cfg))
        cw == fin.max_w
    IN [canvas_width |-> cw,
        canvas_height |-> Max(1, fin.top - OUTPUT_GAP),
        total_leds |-> fin.offset,
        outputs |-> [k \in 1..Len(fin.outputs) |->
                        [fin.outputs[k] EXCEPT
                            !.left = Max(0, (cw - fin.outputs[k].virtual_width) \div 2)]]]

\* The fields DeviceRuntime.__init__ assigns for a non-empty config.
RuntimeOf(cfg) ==
    LET b == build_outputs_runtime(cfg)
    IN [outputs |-> b.outputs, total_leds |-> b.total_leds,
        canvas_width |-> b.canvas_width, canvas_height |-> b.canvas_height,
        buffer_size |-> b.total_leds * 3,
        buffers |-> [h \in {0, 1} |-> Zeros(b.total_leds * 3)],
        front_buffer |-> 0, back_buffer |-> 1, dirty |-> TRUE,
        current_frame_id |-> None, frame_fragments_received |-> {},
        frame_total_fragments |-> 0]

Constructed(cfg) ==
    LET r == RuntimeOf(cfg)
    IN /\ config' = cfg
       /\ phase' = "ready"
       /\ outputs' = r.outputs
       /\ total_leds' = r.total_leds
       /\ canvas_width' = r.canvas_width
       /\ canvas_height' = r.canvas_height
       /\ buffer_size' = r.buffer_size
       /\ buffers' = r.buffers
       /\ front_buffer' = r.front_buffer
       /\ back_buffer' = r.back_buffer
       /\ dirty' = r.dirty
       /\ current_frame_id' = r.current_frame_id
       /\ frame_fragments_received' = r.frame_fragments_received
       /\ frame_total_fragments' = r.frame_total_fragments

\* The state right after DeviceRuntime(cfg) returned.
Ready(cfg) ==
    LET r == RuntimeOf(cfg)
    IN /\ config = cfg
       /\ phase = "ready"
       /\ outputs = r.outputs
       /\ total_leds = r.total_leds
       /\ canvas_width = r.canvas_width
       /\ canvas_height = r.canvas_height
       /\ buffer_size = r.buffer_size
       /\ buffers = r.buffers
       /\ front_buffer = r.front_buffer
       /\ back_buffer = r.back_buffer
       /\ dirty = r.dirty
       /\ current_frame_id = r.current_frame_id
       /\ frame_fragments_received = r.frame_fragments_received
       /\ frame_total_fragments = r.frame_total_fragments

\* Mutation of NoOutputs: an empty output list is never noticed.
NoOutputsNever(outs) == FALSE

\* runtime.py line 71: `if not outputs`.
NoOutputs(outs) == Len(outs) = 0

\* DeviceRuntime.__init__: with no output _build_outputs_runtime raises ValueError
\* before any buffer or frame field is assigned.
Construct ==
    /\ phase = "new"
    /\ IF NoOutputs(BuildLoop(config, Len(config)).outputs)
       THEN /\ phase' = "failed"
            /\ UNCHANGED <<config, outputs, total_leds, canvas_width, canvas_height,
                           buffer_size, buffers, front_buffer, back_buffer, dirty,
                           current_frame_id, frame_fragments_received,
                           frame_total_fragments>>
       ELSE Constructed(config)

\* Before construction: the config is known, nothing else exists yet.
Unbuilt(cfg) ==
    /\ config = cfg
    /\ phase = "new"
    /\ outputs = <<>>
    /\ total_leds = 0
    /\ canvas_width = 1
    /\ canvas_height = 1
    /\ buffer_size = 0
    /\ buffers = [h \in {0, 1} |-> <<>>]
    /\ front_buffer = 0
    /\ back_buffer = 1
    /\ dirty = FALSE
    /\ current_frame_id = None
    /\ frame_fragments_received = {}
    /\ frame_total_fragments = 0

NoCall ==
    [op |-> "none", reset |-> FALSE, mismatch |-> FALSE, swapped |-> FALSE,
     result |-> FALSE, raised |-> FALSE, dropped |-> FALSE, kept |-> FALSE,
     changed |-> FALSE, partial |-> FALSE, back_obj |-> 0, ref_back |-> <<>>,
     ref_front |-> <<>>]
NoRun == [seen |-> {}, swaps |-> 0, conform |-> FALSE, exact |-> FALSE]

\* The threads that call into one runtime: the UDP receive thread and a consumer.
Threads == {"receive", "consumer"}

NoLocals ==
    [op |-> "none", frame_id |-> 0, total_fragments |-> 0, fragment_index |-> 0,
     updates |-> <<>>, k |-> 0, back_buf |-> 0, front |-> 0, tmp |-> <<0, 0>>,
     ret |-> FALSE, took |-> "none"]
NoConsume == [ret |-> FALSE, took |-> "none"]

\* No thread is inside a call and the lock is free.
NoThreads ==
    /\ buffer_lock = None
    /\ pc = [t \in Threads |-> "idle"]
    /\ loc = [t \in Threads |-> NoLocals]
    /\ owed = "init"
    /\ consumed = NoConsume
    /\ whole = <<>>
    /\ snap = <<>>
    /\ need_refresh = TRUE

\* Nothing was handed to the validator.
NoParse ==
    /\ arg = <<>>
    /\ stage = "none"
    /\ parsed = <<>>
    /\ encoded = <<>>
    /\ reparsed = <<>>

NoStart ==
    [op |-> "none", was_running |-> FALSE, bind_failed |-> FALSE, raised |-> FALSE,
     registrar |-> "none", changed |-> FALSE, sockets |-> 0, threads |-> 0, registrations |-> 0, logs |-> 0]

\* VirtualDeviceServer.__init__ (virtual_device.py 28-39): stopped, nothing created.
NoServer ==
    /\ running = FALSE
    /\ udp_socket = None
    /\ thread = None
    /\ zeroconf = FALSE
    /\ service_info = FALSE
    /\ sockets = <<>>
    /\ threads = <<>>
    /\ registrations = 0
    /\ log = <<>>
    /\ port_free = TRUE
    /\ srv = NoStart
    /\ properties = <<>>

\* No datagram was handled.
NoRx ==
    [data |-> <<>>, handled |-> FALSE, replies |-> <<>>, updates |-> <<>>,
     applied |-> FALSE, raised |-> FALSE, changed |-> FALSE, logged |-> FALSE,
     msg_id |-> 0, swapped |-> FALSE]

\* VirtualDeviceServer.__init__ (virtual_device.py 29-31) before any datagram.
NoNet ==
    /\ runtime_pixel_size = 6
    /\ config_payload = [len |-> 0, salt |-> 0]
    /\ config_msg_id = 0
    /\ rx = NoRx
    /\ answered = 0

\* The receive thread before the first statement of _udp_loop
\* (virtual_device.py 139-143).
LoopStart ==
    [pc |-> "start", sock |-> {}, data |-> <<>>, msg_id |-> 0, total_fragments |-> 0,
     frag_idx |-> 0]

\* No datagram arrived and stop() was not called.
NoLoop ==
    /\ inbox = <<>>
    /\ udp_loop = LoopStart
    /\ outbox = <<>>
    /\ arrived = 0
    /\ taken = 0
    /\ errors = 0
    /\ stopping = [pc |-> "none", found |-> "none"]

NoExt == NoParse /\ NoServer /\ NoNet /\ NoLoop

---------------------------------------------------------------------------
(* runtime.py: the operations of a constructed runtime.  Each action is a  *)
(* whole call, executed with buffer_lock held.                             *)

\* Python's buf[a:b] for 0 <= a <= b.
Slice(buf, a, b) == SubSeq(buf, a + 1, Min(b, Len(buf)))

\* Python's buf[a:b] = val on a bytearray, for 0 <= a <= b.
SetSlice(buf, a, b, val) ==
    SubSeq(buf, 1, Min(a, Len(buf))) \o val \o SubSeq(buf, Min(b, Len(buf)) + 1, Len(buf))

\* Mutation of IsNewFrame: only the very first fragment resets the frame state.
IsNewFrameOnlyFirst(cur, frame_id) == cur = None

\* runtime.py line 176: the fragment belongs to another frame than the current one.
IsNewFrame(cur, frame_id) == cur # Some(frame_id)

\* Mutation of InRange: the upper limit is off by one LED.
InRangeUpToSize(idx, buf_size) == 0 <= idx /\ idx <= buf_size

\* runtime.py line 185: the three bytes at idx lie inside the buffer.
InRange(idx, buf_size) == 0 <= idx /\ idx < buf_size - 2

\* Python's buf[i] = v on a bytearray: a negative i counts from the end, an i
\* outside the bytearray raises IndexError.  st is [buf, raised].
SetItem(st, i, v) ==
    LET n == Len(st.buf)
    IN IF st.raised THEN st
       ELSE IF i >= n \/ i < 0 - n THEN [buf |-> st.buf, raised |-> TRUE]
       ELSE [buf |-> [st.buf EXCEPT ![(IF i < 0 THEN n + i ELSE i) + 1] = v],
             raised |-> FALSE]

\* runtime.py lines 184-188: one pixel update <<index, r, g, b>>.
WritePixel(st, update, buf_size) ==
    LET idx == update[1] * 3
    IN IF st.raised \/ ~InRange(idx, buf_size) THEN st
       ELSE SetItem(SetItem(SetItem(st, idx, update[2]), idx + 1, update[3]),
                    idx + 2, update[4])

\* runtime.py lines 183-188: the loop over the fragment's updates.
RECURSIVE WriteUpdates(_, _, _)
WriteUpdates(st, updates, buf_size) ==
    IF updates = <<>> THEN st
    ELSE WriteUpdates(WritePixel(st, Head(updates), buf_size), Tail(updates), buf_size)

\* Mutation of FrameComplete: exactly as many indices as the total are needed.
FrameCompleteExact(received, total) == Cardinality(received) = total

\* Mutation of FrameComplete: strictly more indices than the total are needed.
FrameCompleteStrict(received, total) == Cardinality(received) > total

\* runtime.py line 192: the frame is complete.
FrameComplete(received, total) == Cardinality(received) >= total

\* Mutation of WriteTarget: the updates are written into the front buffer.
WriteTargetFront(front, back) == front

\* runtime.py line 181: back_buf = self.back_buffer, the object the loop writes.
WriteTarget(front, back) == back

\* runtime.py lines 168-195.
ApplyFragmentUpdates(frame_id, total_fragments, fragment_index, updates) ==
    LET reset == IsNewFrame(current_frame_id, frame_id)
        received0 == IF reset THEN {} ELSE frame_fragments_received
        total == IF reset THEN total_fragments ELSE frame_total_fragments
        back_buf == WriteTarget(front_buffer, back_buffer)
        written == WriteUpdates([buf |-> buffers[back_buf], raised |-> FALSE],
                                updates, buffer_size)
        received1 == received0 \cup {fragment_index}
        complete == FrameComplete(received1, total)
    IN /\ phase = "ready"
       /\ current_frame_id' = Some(frame_id)
       /\ frame_total_fragments' = total
       /\ buffers' = [buffers EXCEPT ![back_buf] = written.buf]
       /\ IF written.raised
          THEN /\ frame_fragments_received' = received0
               /\ UNCHANGED <<front_buffer, back_buffer, dirty>>
          ELSE IF complete
          THEN /\ front_buffer' = back_buffer
               /\ back_buffer' = front_buffer
               /\ dirty' = TRUE
               /\ frame_fragments_received' = {}
          ELSE /\ frame_fragments_received' = received1
               /\ UNCHANGED <<front_buffer, back_buffer, dirty>>
       /\ UNCHANGED <<builtVars>>

\* Mutation of FrameEndMatches: every frame end is taken for the current frame's.
FrameEndMatchesAny(cur, frame_id) == TRUE

\* runtime.py line 199: the frame end names the current frame.
FrameEndMatches(cur, frame_id) == cur = Some(frame_id)

\* runtime.py lines 197-202.
ApplyFrameEnd(frame_id) ==
    /\ phase = "ready"
    /\ IF FrameEndMatches(current_frame_id, frame_id)
       THEN /\ front_buffer' = back_buffer
            /\ back_buffer' = front_buffer
            /\ dirty' = TRUE
            /\ frame_fragments_received' = {}
       ELSE UNCHANGED <<front_buffer, back_buffer, dirty, frame_fragments_received>>
    /\ UNCHANGED <<builtVars, buffers, current_frame_id, frame_total_fragments>>

\* runtime.py lines 154-156.
MarkDirty ==
    /\ phase = "ready"
    /\ dirty' = TRUE
    /\ UNCHANGED <<builtVars, bufVars, frameVars>>

\* runtime.py lines 158-163; ret is the value returned.
ConsumeDirty(ret) ==
    /\ phase = "ready"
    /\ ret = dirty
    /\ dirty' = IF dirty THEN FALSE ELSE dirty
    /\ UNCHANGED <<builtVars, bufVars, frameVars>>

\* runtime.py lines 218-220: rows 0..y-1 of column x of a Linear output.
RECURSIVE FillColumn(_, _, _, _, _)
FillColumn(rb, w, x, rgb, y) ==
    IF y = 0 THEN rb
    ELSE LET dst == ((y - 1) * w + x) * 3
         IN SetSlice(FillColumn(rb, w, x, rgb, y - 1), dst, dst + 3, rgb)

\* runtime.py lines 211-220: the first n columns of a Linear output.
RECURSIVE FillLinear(_, _, _)
FillLinear(out, front, n) ==
    IF n = 0 THEN out.render_buffer
    ELSE LET global_idx == out.virtual_to_global[n]
             rgb == IF global_idx = None THEN <<0, 0, 0>>
                    ELSE Slice(front, Get(global_idx) * 3, Get(global_idx) * 3 + 3)
         IN FillColumn(FillLinear(out, front, n - 1), out.virtual_width, n - 1, rgb,
                       out.virtual_height)

\* Mutation of FillCells: the source offset is the LED index, not three times it.
RECURSIVE FillCellsNoStride(_, _, _)
FillCellsNoStride(out, front, n) ==
    IF n = 0 THEN out.render_buffer
    ELSE LET prev == FillCellsNoStride(out, front, n - 1)
             global_idx == out.virtual_to_global[n]
             dst == (n - 1) * 3
         IN IF global_idx = None THEN SetSlice(prev, dst, dst + 3, <<0, 0, 0>>)
            ELSE SetSlice(prev, dst, dst + 3,
                          Slice(front, Get(global_idx), Get(global_idx) + 3))

\* runtime.py lines 223-229: the first n virtual cells of a Matrix or Single output.
RECURSIVE FillCells(_, _, _)
FillCells(out, front, n) ==
    IF n = 0 THEN out.render_buffer
    ELSE LET prev == FillCells(out, front, n - 1)
             global_idx == out.virtual_to_global[n]
             dst == (n - 1) * 3
         IN IF global_idx = None THEN SetSlice(prev, dst, dst + 3, <<0, 0, 0>>)
            ELSE SetSlice(prev, dst, dst + 3,
                          Slice(front, Get(global_idx) * 3, Get(global_idx) * 3 + 3))

\* runtime.py lines 207-229: the render buffer of one output filled from front.
FillOutput(out, front) ==
    IF out.output_type = "Linear" THEN FillLinear(out, front, out.virtual_width)
    ELSE FillCells(out, front, Len(out.virtual_to_global))

\* runtime.py lines 204-229.
FillOutputBuffers ==
    /\ phase = "ready"
    /\ outputs' = [k \in 1..Len(outputs) |->
                      [outputs[k] EXCEPT
                          !.render_buffer = FillOutput(outputs[k], buffers[front_buffer])]]
    /\ UNCHANGED <<config, phase, total_leds, canvas_width, canvas_height, buffer_size,
                   bufVars, dirty, frameVars>>

---------------------------------------------------------------------------
(* Inputs of the calls.                                                    *)

FrameIds == 0..MaxFrameId
Totals == 0..MaxTotal
Indices == 0..MaxIndex
Colours == {<<0, 0, 0>>, <<1, 2, 3>>}
PixelUpdates == { <<i, c[1], c[2], c[3]>> : i \in 0..MaxPixel, c \in Colours }
UpdateLists == UNION { [1..n -> PixelUpdates] : n \in 0..MaxUpdates }

\* The update lists of the calls that exercise the frame state machine.
FrameUpdateLists == { <<>>, << <<0, 1, 2, 3>> >> }
\* The <<frame_id, total_fragments, fragment_index>> of the calls that exercise pixel writes.
PixelFrames == { <<0, 2, 0>>, <<0, 2, 1>> }

SparseMatrix == [width |-> 2, height |-> 2, map |-> <<Some(0), None, Some(1), None>>]
StripConfig == WithIds(<<SingleOutput, LinearOutput(1)>>)
SparseConfig == WithIds(<<MatrixOutput(SparseMatrix)>>)
LineConfig == WithIds(<<LinearOutput(2)>>)
SampleConfigs == {StripConfig, SparseConfig, LineConfig}

---------------------------------------------------------------------------
(* History of the calls.                                                   *)

Swapped == front_buffer' # front_buffer

\* What the pixel write rule asks of a buffer of `leds` LEDs: byte p (1-based)
\* ends up holding the colour byte of the last update addressed to its LED, an
\* update addressed to no LED of the device changes nothing.
RefWrite(buf, updates, leds) ==
    [p \in 1..Len(buf) |->
        LET hits == { k \in 1..Len(updates) :
                        /\ updates[k][1] >= 0
                        /\ updates[k][1] < leds
                        /\ (p - 1) \div 3 = updates[k][1] }
        IN IF hits = {} THEN buf[p]
           ELSE LET k == CHOOSE h \in hits : \A g \in hits : g <= h
                IN updates[k][2 + ((p - 1) % 3)]]

Record(op, ret) ==
    call' = [NoCall EXCEPT !.op = op, !.swapped = Swapped, !.result = ret]

\* reset: the fragment carried another frame id than the current one; mismatch:
\* it carried the current one and declared another total than the stored one.
RecordFragment(f, t) ==
    call' = [NoCall EXCEPT !.op = "apply_fragment_updates",
                           !.reset = (current_frame_id # Some(f)),
                           !.mismatch = (current_frame_id = Some(f) /\ t # frame_total_fragments),
                           !.swapped = Swapped]

\* dropped / kept: some update addressed no LED / an LED of the device; ref_back:
\* what the write rule asks of the buffer that was back; ref_front: the content
\* of the buffer that was front.
RecordPixels(u) ==
    LET ref == RefWrite(buffers[back_buffer], u, total_leds)
    IN call' = [NoCall EXCEPT !.op = "apply_fragment_updates",
                  !.swapped = Swapped,
                  !.raised = WriteUpdates([buf |-> buffers[back_buffer], raised |-> FALSE],
                                          u, buffer_size).raised,
                  !.dropped = (\E k \in 1..Len(u) : u[k][1] >= total_leds),
                  !.kept = (\E k \in 1..Len(u) : u[k][1] < total_leds),
                  !.changed = (ref # buffers[back_buffer]),
                  !.back_obj = back_buffer,
                  !.ref_back = ref,
                  !.ref_front = buffers[front_buffer]]

\* The run of fragments since the frame id last changed: the distinct indices
\* delivered, the swaps (counted up to MaxSwaps), conform: every fragment declared
\* the run's total N >= 1 and an index below N; exact: conform and no index twice.
TrackRun(f, t, i) ==
    LET swaps == IF Swapped THEN 1 ELSE 0
    IN IF IsNewFrame(current_frame_id, f)
       THEN run' = [seen |-> {i}, swaps |-> swaps,
                    conform |-> (t >= 1 /\ i < t), exact |-> (t >= 1 /\ i < t)]
       ELSE LET ok == run.conform /\ t = frame_total_fragments /\ i < t
            IN run' = [seen |-> run.seen \cup {i},
                       swaps |-> Min(run.swaps + swaps, MaxSwaps),
                       conform |-> ok, exact |-> (run.exact /\ ok /\ i \notin run.seen)]

---------------------------------------------------------------------------
(* Spec: the frame state machine of one runtime driven call by call.       *)

Init ==
    /\ Ready(StripConfig)
    /\ call = NoCall
    /\ run = NoRun
    /\ NoThreads
    /\ NoExt

Fragment ==
    \E f \in FrameIds, t \in Totals, i \in Indices, u \in FrameUpdateLists :
        /\ ApplyFragmentUpdates(f, t, i, u)
        /\ RecordFragment(f, t)
        /\ UNCHANGED <<run, concVars, extVars>>

\* partial: the frame end arrived while some but not all fragments were received.
FrameEnd ==
    \E f \in FrameIds :
        /\ ApplyFrameEnd(f)
        /\ call' = [NoCall EXCEPT !.op = "apply_frame_end", !.swapped = Swapped,
                                  !.partial = (frame_fragments_received # {})]
        /\ UNCHANGED <<run, concVars, extVars>>

Mark ==
    /\ MarkDirty
    /\ Record("mark_dirty", FALSE)
    /\ UNCHANGED <<run, concVars, extVars>>

Consume ==
    \E ret \in BOOLEAN :
        /\ ConsumeDirty(ret)
        /\ Record("consume_dirty", ret)
        /\ UNCHANGED <<run, concVars, extVars>>

Fill ==
    /\ FillOutputBuffers
    /\ Record("fill_output_buffers", FALSE)
    /\ UNCHANGED <<run, concVars, extVars>>

Next == Fragment \/ FrameEnd \/ Mark \/ Consume

Spec == Init /\ [][Next]_vars

---------------------------------------------------------------------------
(* SpecRun: the fragments of a frame counted since the frame id changed.   *)

RunFragment ==
    \E f \in FrameIds, t \in Totals, i \in Indices, u \in FrameUpdateLists :
        /\ ApplyFragmentUpdates(f, t, i, u)
        /\ TrackRun(f, t, i)
        /\ UNCHANGED <<call, concVars, extVars>>

RunFrameEnd ==
    \E f \in FrameIds :
        /\ ApplyFrameEnd(f)
        /\ run' = [run EXCEPT !.conform = FALSE, !.exact = FALSE]
        /\ UNCHANGED <<call, concVars, extVars>>

NextRun == RunFragment \/ RunFrameEnd

SpecRun == Init /\ [][NextRun]_vars

---------------------------------------------------------------------------
(* SpecPixels: the pixel writes of fragments into the buffers.             *)

InitPixels ==
    /\ Ready(StripConfig)
    /\ call = NoCall
    /\ run = NoRun
    /\ NoThreads
    /\ NoExt

PixelFragment ==
    \E ft \in PixelFrames, u \in UpdateLists :
        /\ ApplyFragmentUpdates(ft[1], ft[2], ft[3], u)
        /\ RecordPixels(u)
        /\ UNCHANGED <<run, concVars, extVars>>

NextPixels == PixelFragment

SpecPixels == InitPixels /\ [][NextPixels]_vars

---------------------------------------------------------------------------
(* SpecFill: the render buffers filled from the front buffer.              *)

InitFill ==
    /\ \E cfg \in SampleConfigs : Ready(cfg)
    /\ call = NoCall
    /\ run = NoRun
    /\ NoThreads
    /\ NoExt

FillFragment ==
    \E ft \in PixelFrames, p \in PixelUpdates :
        /\ ApplyFragmentUpdates(ft[1], ft[2], ft[3], <<p>>)
        /\ Record("apply_fragment_updates", FALSE)
        /\ UNCHANGED <<run, concVars, extVars>>

NextFill == FillFragment \/ Fill

SpecFill == InitFill /\ [][NextFill]_vars

---------------------------------------------------------------------------
(* SpecBuild: DeviceRuntime(config) for every config within the bounds.    *)

BuildConfigs == ValidConfigs \cup {<<>>}

InitBuild ==
    /\ \E cfg \in BuildConfigs : Unbuilt(cfg)
    /\ call = NoCall
    /\ run = NoRun
    /\ NoThreads
    /\ NoExt

Build ==
    /\ Construct
    /\ UNCHANGED <<call, run, concVars, extVars>>

NextBuild == Build

SpecBuild == InitBuild /\ [][NextBuild]_vars

---------------------------------------------------------------------------
(* SpecThreads: the two threads of the program calling into one runtime,   *)
(* statement by statement.  The receive thread (virtual_device.py 56,      *)
(* _udp_loop) delivers fragments and frame ends; the consumer (the GUI     *)
(* thread: main_window.py 437 and 642, preview.py 37) calls mark_dirty,    *)
(* consume_dirty and fill_output_buffers.  Every call runs inside          *)
(* `with self.buffer_lock`.                                                *)

\* threading.Lock.acquire: the lock can be taken when no thread holds it.
CanAcquireAlways(lock) == TRUE
CanAcquire(lock) == lock = None

\* The fragments the receive thread delivers:
\* <<frame_id, total_fragments, fragment_index, updates>>.
ThreadFragments ==
    { <<0, 1, 0, << <<0, 1, 2, 3>>, <<1, 1, 2, 3>> >> >>,
      <<0, 1, 0, << <<0, 0, 0, 0>>, <<1, 0, 0, 0>> >> >>,
      <<1, 2, 0, << <<0, 1, 2, 3>> >> >> }
ThreadFrameEnds == {0, 1}

Goto(t, label) == pc' = [pc EXCEPT ![t] = label]

\* `with self.buffer_lock:` entered by a call of `op`; the next statement is `label`.
Enter(t, op, label, locals) ==
    /\ phase = "ready"
    /\ pc[t] = "idle"
    /\ CanAcquire(buffer_lock)
    /\ buffer_lock' = Some(t)
    /\ Goto(t, label)
    /\ loc' = [loc EXCEPT ![t] = [locals EXCEPT !.op = op]]

\* Mutation of SetDirty: the flag is left as it was.
SetDirtyKeeps(source) ==
    /\ dirty' = dirty
    /\ owed' = source

\* A statement `self.dirty = True`.
SetDirty(source) ==
    /\ dirty' = TRUE
    /\ owed' = source

\* runtime.py 154-156: mark_dirty.
MarkEnter(t) ==
    /\ Enter(t, "mark_dirty", "md_set", NoLocals)
    /\ UNCHANGED <<progVars, call, run, extVars, need_refresh, owed, consumed, whole, snap>>

MarkSet(t) ==
    /\ pc[t] = "md_set"
    /\ SetDirty("mark")
    /\ Goto(t, "release")
    /\ UNCHANGED <<builtVars, bufVars, frameVars, call, run, extVars, need_refresh, buffer_lock, loc,
                   consumed, whole, snap>>

\* runtime.py 158-163: consume_dirty.
ConsumeEnter(t) ==
    /\ Enter(t, "consume_dirty", "cd_test", NoLocals)
    /\ UNCHANGED <<progVars, call, run, extVars, need_refresh, owed, consumed, whole, snap>>

\* runtime.py 160: `if self.dirty`; 163: `return False`.
ConsumeTest(t) ==
    /\ pc[t] = "cd_test"
    /\ Goto(t, IF dirty THEN "cd_clear" ELSE "release")
    /\ loc' = [loc EXCEPT ![t].ret = FALSE, ![t].took = owed]
    /\ owed' = "none"
    /\ UNCHANGED <<progVars, call, run, extVars, need_refresh, buffer_lock, consumed, whole, snap>>

\* runtime.py 161-162: `self.dirty = False; return True`.
ConsumeClear(t) ==
    /\ pc[t] = "cd_clear"
    /\ dirty' = FALSE
    /\ loc' = [loc EXCEPT ![t].ret = TRUE]
    /\ Goto(t, "release")
    /\ UNCHANGED <<builtVars, bufVars, frameVars, call, run, extVars, need_refresh, buffer_lock, owed,
                   consumed, whole, snap>>

\* runtime.py 175: apply_fragment_updates enters the lock.
FragmentEnter(t) ==
    \E a \in ThreadFragments :
        /\ Enter(t, "apply_fragment_updates", "af_reset",
                 [NoLocals EXCEPT !.frame_id = a[1], !.total_fragments = a[2],
                                  !.fragment_index = a[3], !.updates = a[4], !.k = 1])
        /\ UNCHANGED <<progVars, call, run, extVars, need_refresh, owed, consumed, whole, snap>>

\* runtime.py 176-182.
FragmentReset(t) ==
    /\ pc[t] = "af_reset"
    /\ IF IsNewFrame(current_frame_id, loc[t].frame_id)
       THEN /\ current_frame_id' = Some(loc[t].frame_id)
            /\ frame_fragments_received' = {}
            /\ frame_total_fragments' = loc[t].total_fragments
       ELSE UNCHANGED frameVars
    /\ loc' = [loc EXCEPT ![t].back_buf = back_buffer]
    /\ Goto(t, "af_write")
    /\ UNCHANGED <<builtVars, bufVars, dirty, call, run, extVars, need_refresh, buffer_lock, owed,
                   consumed, whole, snap>>

\* runtime.py 183-188: one iteration of the loop over the updates.
FragmentWrite(t) ==
    /\ pc[t] = "af_write"
    /\ IF loc[t].k > Len(loc[t].updates)
       THEN /\ Goto(t, "af_add")
            /\ UNCHANGED <<buffers, loc>>
       ELSE LET w == WritePixel([buf |-> buffers[loc[t].back_buf], raised |-> FALSE],
                                loc[t].updates[loc[t].k], buffer_size)
            IN /\ buffers' = [buffers EXCEPT ![loc[t].back_buf] = w.buf]
               /\ loc' = [loc EXCEPT ![t].k = @ + 1]
               /\ Goto(t, IF w.raised THEN "release" ELSE "af_write")
    /\ UNCHANGED <<builtVars, front_buffer, back_buffer, dirty, frameVars, call, run, extVars, need_refresh,
                   buffer_lock, owed, consumed, whole, snap>>

\* runtime.py 190-192.
FragmentAdd(t) ==
    /\ pc[t] = "af_add"
    /\ frame_fragments_received' = frame_fragments_received \cup {loc[t].fragment_index}
    /\ Goto(t, IF FrameComplete(frame_fragments_received', frame_total_fragments)
               THEN "swap_front" ELSE "release")
    /\ UNCHANGED <<builtVars, bufVars, dirty, current_frame_id, frame_total_fragments,
                   call, run, extVars, need_refresh, buffer_lock, loc, owed, consumed, whole, snap>>

\* runtime.py 197-199: apply_frame_end.
FrameEndEnter(t) ==
    \E f \in ThreadFrameEnds :
        /\ Enter(t, "apply_frame_end", "fe_test", [NoLocals EXCEPT !.frame_id = f])
        /\ UNCHANGED <<progVars, call, run, extVars, need_refresh, owed, consumed, whole, snap>>

FrameEndTest(t) ==
    /\ pc[t] = "fe_test"
    /\ Goto(t, IF FrameEndMatches(current_frame_id, loc[t].frame_id)
               THEN "swap_front" ELSE "release")
    /\ UNCHANGED <<progVars, call, run, extVars, need_refresh, buffer_lock, loc, owed, consumed, whole, snap>>

\* Mutation of SwapValues: both attributes receive the buffer that was back.
SwapValuesSame(front, back) == <<back, back>>

\* runtime.py 193, 200: the tuple on the right-hand side of the swap.
SwapValues(front, back) == <<back, front>>

\* runtime.py 193, 200: the right-hand side is evaluated, then front_buffer is stored.
SwapFront(t) ==
    /\ pc[t] = "swap_front"
    /\ loc' = [loc EXCEPT ![t].tmp = SwapValues(front_buffer, back_buffer)]
    /\ front_buffer' = SwapValues(front_buffer, back_buffer)[1]
    /\ Goto(t, "swap_back")
    /\ UNCHANGED <<builtVars, buffers, back_buffer, dirty, frameVars, call, run, extVars, need_refresh,
                   buffer_lock, owed, consumed, whole, snap>>

\* runtime.py 193, 200: then back_buffer is stored.
SwapBack(t) ==
    /\ pc[t] = "swap_back"
    /\ back_buffer' = loc[t].tmp[2]
    /\ Goto(t, "swap_dirty")
    /\ UNCHANGED <<builtVars, buffers, front_buffer, dirty, frameVars, call, run, extVars, need_refresh,
                   buffer_lock, loc, owed, consumed, whole, snap>>

\* runtime.py 194, 201.
SwapDirty(t) ==
    /\ pc[t] = "swap_dirty"
    /\ SetDirty("swap")
    /\ Goto(t, "swap_clear")
    /\ UNCHANGED <<builtVars, bufVars, frameVars, call, run, extVars, need_refresh, buffer_lock, loc,
                   consumed, whole, snap>>

\* runtime.py 195, 202.
SwapClear(t) ==
    /\ pc[t] = "swap_clear"
    /\ frame_fragments_received' = {}
    /\ Goto(t, "release")
    /\ UNCHANGED <<builtVars, bufVars, dirty, current_frame_id, frame_total_fragments,
                   call, run, extVars, need_refresh, buffer_lock, loc, owed, consumed, whole, snap>>

\* runtime.py 205: fill_output_buffers enters the lock.
FillEnter(t) ==
    /\ Enter(t, "fill_output_buffers", "fo_view", NoLocals)
    /\ UNCHANGED <<progVars, call, run, extVars, need_refresh, owed, consumed, whole, snap>>

\* runtime.py 206: `front = memoryview(self.front_buffer)`.
FillView(t) ==
    /\ pc[t] = "fo_view"
    /\ loc' = [loc EXCEPT ![t].front = front_buffer, ![t].k = 1]
    /\ snap' = whole
    /\ Goto(t, "fo_out")
    /\ UNCHANGED <<progVars, call, run, extVars, need_refresh, buffer_lock, owed, consumed, whole>>

\* runtime.py 207-229: one iteration of the loop over the outputs.
FillOne(t) ==
    /\ pc[t] = "fo_out"
    /\ IF loc[t].k > Len(outputs)
       THEN /\ Goto(t, "release")
            /\ UNCHANGED <<outputs, loc>>
       ELSE /\ outputs' = [outputs EXCEPT ![loc[t].k].render_buffer =
                              FillOutput(outputs[loc[t].k], buffers[loc[t].front])]
            /\ loc' = [loc EXCEPT ![t].k = @ + 1]
            /\ Goto(t, "fo_out")
    /\ UNCHANGED <<config, phase, total_leds, canvas_width, canvas_height, buffer_size,
                   bufVars, dirty, frameVars, call, run, extVars, need_refresh, buffer_lock, owed,
                   consumed, whole, snap>>

\* The end of the `with` block: the lock is released and the call returns.
Unlock(t) ==
    /\ pc[t] = "release"
    /\ buffer_lock' = None
    /\ Goto(t, "idle")
    /\ loc' = [loc EXCEPT ![t] = NoLocals]
    /\ whole' = buffers[front_buffer]
    /\ snap' = IF loc[t].op = "fill_output_buffers" THEN <<>> ELSE snap
    /\ consumed' = IF loc[t].op = "consume_dirty"
                   THEN [ret |-> loc[t].ret, took |-> loc[t].took]
                   ELSE consumed
    /\ UNCHANGED <<progVars, run, extVars, need_refresh, owed>>

Release(t) ==
    /\ Unlock(t)
    /\ UNCHANGED call

InitThreads ==
    /\ Ready(StripConfig)
    /\ call = NoCall
    /\ run = NoRun
    /\ buffer_lock = None
    /\ pc = [t \in Threads |-> "idle"]
    /\ loc = [t \in Threads |-> NoLocals]
    /\ owed = "init"
    /\ consumed = NoConsume
    /\ whole = buffers[front_buffer]
    /\ snap = <<>>
    /\ need_refresh = TRUE
    /\ NoExt

NextThreads ==
    \/ FragmentEnter("receive") \/ FragmentReset("receive")
    \/ FragmentWrite("receive") \/ FragmentAdd("receive")
    \/ FrameEndEnter("receive") \/ FrameEndTest("receive")
    \/ SwapFront("receive") \/ SwapBack("receive")
    \/ SwapDirty("receive") \/ SwapClear("receive")
    \/ MarkEnter("consumer") \/ MarkSet("consumer")
    \/ ConsumeEnter("consumer") \/ ConsumeTest("consumer") \/ ConsumeClear("consumer")
    \/ FillEnter("consumer") \/ FillView("consumer") \/ FillOne("consumer")
    \/ \E t \in Threads : Release(t)

SpecThreads == InitThreads /\ [][NextThreads]_vars

---------------------------------------------------------------------------
(* Frame reassembly.                                                       *)

\* C1: in a run of fragments of one frame F that starts with the frame id
\* changing to F, every fragment declaring the same total N >= 1 and an index
\* below N, no index delivered twice and no other call in between, exactly one
\* swap has happened once N distinct indices are delivered and none before.
OneSwapWhenAllDelivered ==
    run.exact =>
        run.swaps = (IF Cardinality(run.seen) = frame_total_fragments THEN 1 ELSE 0)

\* A frame of two fragments was delivered whole and swapped once.
OneSwapWhenAllDeliveredWitness ==
    /\ run.exact
    /\ frame_total_fragments = 2
    /\ run.seen = {0, 1}
    /\ run.swaps = 1

\* C2: in a run of fragments that all carry frame id F and total N, with
\* indices below N, repeated or not, at most one swap happens.
AtMostOneSwapPerFrameId == run.conform => run.swaps <= 1

\* C4: a fragment of another frame than the current one makes its id the
\* current one, adopts its total and counts it as the first received index; a
\* fragment of the current frame keeps the id, the stored total and the
\* indices received so far.
FrameIdResets ==
    [][\A f \in FrameIds, t \in Totals, i \in Indices, u \in FrameUpdateLists :
        ApplyFragmentUpdates(f, t, i, u) =>
            IF current_frame_id # Some(f)
            THEN /\ current_frame_id' = Some(f)
                 /\ frame_total_fragments' = t
                 /\ frame_fragments_received' \in {{i}, {}}
                 /\ (frame_fragments_received' = {}) <=> (front_buffer' # front_buffer)
            ELSE /\ current_frame_id' = current_frame_id
                 /\ frame_total_fragments' = frame_total_fragments
                 /\ frame_fragments_received' \in {frame_fragments_received \cup {i}, {}}
                 /\ (frame_fragments_received' = {}) <=> (front_buffer' # front_buffer)
      ]_vars

\* A fragment of a new frame was just recorded as the only received index.
FrameIdResetsWitness ==
    /\ call.op = "apply_fragment_updates"
    /\ call.reset
    /\ current_frame_id = Some(1)
    /\ Cardinality(frame_fragments_received) = 1

\* C5: a fragment after which the distinct received indices number at least
\* the stored total swaps front and back, sets dirty, empties the received set
\* and leaves the frame id equal to the fragment's.
CompletionSwaps ==
    [][\A f \in FrameIds, t \in Totals, i \in Indices, u \in FrameUpdateLists :
        ApplyFragmentUpdates(f, t, i, u) =>
            LET other == current_frame_id # Some(f)
                received == (IF other THEN {} ELSE frame_fragments_received) \cup {i}
                total == IF other THEN t ELSE frame_total_fragments
            IN Cardinality(received) >= total =>
                /\ front_buffer' = back_buffer
                /\ back_buffer' = front_buffer
                /\ dirty'
                /\ frame_fragments_received' = {}
                /\ current_frame_id' = Some(f)
      ]_vars

\* The second fragment of a two-fragment frame just completed it.
CompletionSwapsWitness ==
    /\ call.op = "apply_fragment_updates"
    /\ call.swapped
    /\ ~call.reset
    /\ frame_total_fragments = 2
    /\ frame_fragments_received = {}

\* C6: a frame end naming the current frame swaps, sets dirty and empties the
\* received set; any other frame end changes nothing.
FrameEndEffect ==
    [][\A f \in FrameIds :
        ApplyFrameEnd(f) =>
            IF current_frame_id = Some(f)
            THEN /\ front_buffer' = back_buffer
                 /\ back_buffer' = front_buffer
                 /\ dirty'
                 /\ frame_fragments_received' = {}
                 /\ UNCHANGED <<buffers, current_frame_id, frame_total_fragments>>
            ELSE UNCHANGED <<buffers, front_buffer, back_buffer, dirty, current_frame_id,
                             frame_fragments_received, frame_total_fragments>>
      ]_vars

\* A frame end flushed a frame of which only some fragments had arrived.
FrameEndEffectWitness ==
    /\ call.op = "apply_frame_end"
    /\ call.swapped
    /\ call.partial
    /\ dirty
    /\ frame_fragments_received = {}

---------------------------------------------------------------------------
(* Pixel writes.                                                           *)

\* C3: after a fragment, the buffer that was back holds exactly what the
\* write rule asks (updates at an index >= total_leds changed nothing, the
\* others are written at their three bytes), the buffer that was front is
\* unchanged, and no error was raised.
OutOfRangeUpdatesDropped ==
    call.op = "apply_fragment_updates" =>
        /\ ~call.raised
        /\ buffers[call.back_obj] = call.ref_back
        /\ buffers[1 - call.back_obj] = call.ref_front

\* A fragment carried both an update beyond the last LED and one that changed a pixel.
OutOfRangeUpdatesDroppedWitness ==
    /\ call.op = "apply_fragment_updates"
    /\ call.dropped
    /\ call.kept
    /\ call.changed

---------------------------------------------------------------------------
(* Render buffers.                                                         *)

\* The three bytes of cell c (0-based) of a buffer.
Cell(buf, c) == <<buf[3 * c + 1], buf[3 * c + 2], buf[3 * c + 3]>>

\* C9: right after fill_output_buffers every virtual cell of every output is
\* black if it maps to no LED and else holds the front colour of its LED; in a
\* Linear output cell x of every display row holds the front colour of LED
\* offset + x.
RenderMatchesFront ==
    call.op = "fill_output_buffers" =>
        \A k \in 1..Len(outputs) :
            LET out == outputs[k]
                front == buffers[front_buffer]
                w == out.virtual_width
                h == out.virtual_height
            IN /\ Len(out.render_buffer) = w * h * 3
               /\ \A c \in 1..Len(out.virtual_to_global) :
                     Cell(out.render_buffer, c - 1) =
                        IF out.virtual_to_global[c] = None THEN <<0, 0, 0>>
                        ELSE Cell(front, Get(out.virtual_to_global[c]))
               /\ out.output_type = "Linear" =>
                     \A y \in 0..(h - 1), x \in 0..(w - 1) :
                        Cell(out.render_buffer, y * w + x) = Cell(front, out.offset + x)

\* The sparse matrix was rendered with its second LED lit: the lit LED shows in
\* cell 2, the unmapped cells 1 and 3 are black.
RenderMatchesFrontWitness ==
    /\ call.op = "fill_output_buffers"
    /\ config = SparseConfig
    /\ Cell(buffers[front_buffer], 1) = <<1, 2, 3>>
    /\ outputs[1].render_buffer = <<0, 0, 0, 0, 0, 0, 1, 2, 3, 0, 0, 0>>

---------------------------------------------------------------------------
(* Global LED address space.                                               *)

RECURSIVE SumLeds(_, _)
SumLeds(cfg, k) == IF k = 0 THEN 0 ELSE SumLeds(cfg, k - 1) + cfg[k].leds_count

ExampleConfig == WithIds(<<SingleOutput, LinearOutput(3)>>)

\* C10: the outputs of a constructed runtime keep the config's order, the first
\* offset is 0, each next offset is the previous plus the previous output's
\* leds_count, and total_leds is the sum of all leds_count; outputs
\* [Single, Linear of 3] give total 4 and offsets 0 and 1.
OffsetsAreRunningSums ==
    phase = "ready" =>
        /\ Len(outputs) = Len(config)
        /\ \A k \in 1..Len(config) :
              /\ outputs[k].id = config[k].id
              /\ outputs[k].leds_count = config[k].leds_count
        /\ outputs[1].offset = 0
        /\ \A k \in 1..(Len(config) - 1) :
              outputs[k + 1].offset = outputs[k].offset + config[k].leds_count
        /\ total_leds = SumLeds(config, Len(config))
        /\ config = ExampleConfig =>
              /\ total_leds = 4
              /\ outputs[1].offset = 0
              /\ outputs[2].offset = 1

\* A runtime was built in which a sparse matrix precedes another output.
OffsetsAreRunningSumsWitness ==
    /\ phase = "ready"
    /\ Len(config) = 2
    /\ config[1].output_type = "Matrix"
    /\ config[1].leds_count = 1
    /\ Len(Get(config[1].matrix).map) = 2
    /\ outputs[2].offset = 1
    /\ total_leds = 4

---------------------------------------------------------------------------
(* Threads.                                                                *)

\* C7: consume_dirty reads and clears the dirty flag in one atomic step with
\* respect to swaps and mark_dirty: a finished consume_dirty returned true
\* exactly when the flag had been set (by construction, a swap or mark_dirty)
\* since the previous consume_dirty read it, so a second one with nothing in
\* between returns false; and whenever the consumer is outside consume_dirty
\* the flag is set exactly when such a signal is still untaken, so no swap's
\* signal is lost under any interleaving with the receive thread.
ConsumeDirtyAtomic ==
    /\ consumed.ret = (consumed.took # "none")
    /\ pc["consumer"] = "idle" => (dirty = (owed # "none"))

\* A consume_dirty returned true for a swap, and the receive thread has since
\* finished another swap that no consume_dirty has taken yet.
ConsumeDirtyAtomicWitness ==
    /\ consumed.ret
    /\ consumed.took = "swap"
    /\ owed = "swap"
    /\ dirty
    /\ \A t \in Threads : pc[t] = "idle"

\* What fill_output_buffers must leave in the render buffer of `out` when it
\* copies from the front buffer contents `front`.
Rendered(out, front) ==
    [b \in 1..(out.virtual_width * out.virtual_height * 3) |->
        LET c == (b - 1) \div 3
            g == out.virtual_to_global[(c % out.virtual_width) + 1]
            m == out.virtual_to_global[c + 1]
            led == IF out.output_type = "Linear" THEN g ELSE m
        IN IF led = None THEN 0 ELSE front[3 * Get(led) + ((b - 1) % 3) + 1]]

\* C8: the calls on one runtime exclude each other: at most one thread is
\* inside a call; while fill_output_buffers copies, the front buffer it reads
\* is the front buffer the last finished call left (never one in the middle of
\* a fragment or of a swap), and every output it has filled so far was copied
\* from that same front buffer.
FillReadsWholeFront ==
    /\ Cardinality({t \in Threads : pc[t] # "idle"}) <= 1
    /\ \A t \in Threads :
          loc[t].op = "fill_output_buffers" /\ pc[t] \in {"fo_out", "release"} =>
              /\ buffers[loc[t].front] = snap
              /\ \A j \in 1..Len(outputs) :
                    j < loc[t].k => outputs[j].render_buffer = Rendered(outputs[j], snap)

\* fill_output_buffers has copied both outputs from a front buffer that a
\* completed frame lit.
FillReadsWholeFrontWitness ==
    /\ pc["consumer"] = "release"
    /\ loc["consumer"].op = "fill_output_buffers"
    /\ loc["consumer"].k > Len(outputs)
    /\ snap = <<1, 2, 3, 1, 2, 3>>
    /\ outputs[1].render_buffer = <<1, 2, 3>>
    /\ outputs[2].render_buffer = <<1, 2, 3>>
    /\ pc["receive"] = "idle"

---------------------------------------------------------------------------
(* Virtual cells and the global address space.                             *)

\* The global indices an output's virtual cells map to.
GlobalsOf(out) ==
    { Get(out.virtual_to_global[c]) :
        c \in { d \in 1..Len(out.virtual_to_global) : out.virtual_to_global[d] # None } }

\* The number of virtual cells of an output that map to global index g.
CellsOn(out, g) ==
    Cardinality({ c \in 1..Len(out.virtual_to_global) : out.virtual_to_global[c] = Some(g) })

\* C11: in a runtime built from a validated config the mapped cells of each
\* output are exactly the global indices offset .. offset + leds_count - 1
\* (each on exactly one cell for Matrix and Single, on at least one cell for
\* Linear); the outputs' index ranges are pairwise disjoint and together are
\* exactly 0 .. total_leds - 1; every mapped index times 3 starts a 3-byte slot
\* inside the front buffer.
CellsPartitionAddressSpace ==
    phase = "ready" =>
        /\ \A k \in 1..Len(outputs) :
              LET out == outputs[k]
              IN /\ GlobalsOf(out) = out.offset..(out.offset + out.leds_count - 1)
                 /\ \A g \in GlobalsOf(out) :
                       IF out.output_type = "Linear" THEN CellsOn(out, g) >= 1
                       ELSE CellsOn(out, g) = 1
                 /\ \A g \in GlobalsOf(out) :
                       /\ 0 <= g * 3
                       /\ g * 3 + 3 <= Len(buffers[front_buffer])
        /\ \A j, k \in 1..Len(outputs) :
              j # k => GlobalsOf(outputs[j]) \cap GlobalsOf(outputs[k]) = {}
        /\ UNION { GlobalsOf(outputs[k]) : k \in 1..Len(outputs) } = 0..(total_leds - 1)

\* A runtime of two outputs whose second is a sparse matrix: its one LED sits
\* behind the LEDs of the first output and one of its cells maps to nothing.
CellsPartitionAddressSpaceWitness ==
    /\ phase = "ready"
    /\ Len(outputs) = 2
    /\ outputs[1].output_type = "Linear"
    /\ outputs[1].leds_count = 2
    /\ outputs[2].output_type = "Matrix"
    /\ outputs[2].virtual_to_global = <<None, Some(2)>>
    /\ total_leds = 3

---------------------------------------------------------------------------
(* SpecMatrix: leds_count_from_matrix_map applied to every matrix map      *)
(* within the bounds, valid or not.                                        *)

MaxSide == 2
MaxMapLen == 4
MaxEntry == 1

\* MatrixMapConfig values: any width and height, a map of any length whose
\* entries are null or integers (negative ones included).
AnyEntries == {None} \cup { Some(v) : v \in (-1)..MaxEntry }
IsAnyMatrixMap(m) ==
    \E w \in (-1)..MaxSide, h \in 0..MaxSide, n \in 0..MaxMapLen :
        \E mp \in [1..n -> AnyEntries] : m = [width |-> w, height |-> h, map |-> mp]

InitMatrix ==
    /\ Unbuilt(<<>>)
    /\ call = NoCall
    /\ run = NoRun
    /\ NoThreads
    /\ IsAnyMatrixMap(arg)
    /\ stage = "input"
    /\ parsed = <<>>
    /\ encoded = <<>>
    /\ reparsed = <<>>
    /\ NoServer
    /\ NoNet
    /\ NoLoop

\* leds_count_from_matrix_map(output_id, m).
DeriveLedsCount ==
    /\ stage = "input"
    /\ stage' = "parsed"
    /\ parsed' = leds_count_from_matrix_map(arg)
    /\ UNCHANGED <<progVars, call, run, concVars, serverVars, netVars, loopVars, arg, encoded, reparsed>>

NextMatrix == DeriveLedsCount

SpecMatrix == InitMatrix /\ [][NextMatrix]_vars

\* The positions of the non-null entries of a map.
NonNull(map) == { k \in 1..Len(map) : map[k] # None }

\* C12: for every matrix map that leds_count_from_matrix_map accepts, the
\* returned leds_count is the number of non-null entries, and the non-null
\* entries are exactly 0 .. leds_count - 1, each value on one position.
AcceptedMapIsPermutation ==
    stage = "parsed" /\ parsed # None =>
        LET n == Get(parsed)
        IN /\ n = Cardinality(NonNull(arg.map))
           /\ { Get(arg.map[k]) : k \in NonNull(arg.map) } = 0..(n - 1)
           /\ \A v \in 0..(n - 1) :
                 Cardinality({ k \in NonNull(arg.map) : arg.map[k] = Some(v) }) = 1

\* A 2x2 map with two LEDs in reverse order and two unmapped cells was accepted.
AcceptedMapIsPermutationWitness ==
    /\ stage = "parsed"
    /\ arg = [width |-> 2, height |-> 2, map |-> <<Some(1), Some(0), None, None>>]
    /\ parsed = Some(2)

\* The rejection reasons of a map, stated on the map itself.
BadSize(m) == m.width <= 0 \/ m.height <= 0
BadLength(m) == Len(m.map) # m.width * m.height
NoLeds(m) == NonNull(m.map) = {}
HasDuplicate(m) ==
    \E j, k \in NonNull(m.map) : j # k /\ m.map[j] = m.map[k]
HasMissing(m) ==
    \E k \in NonNull(m.map) :
        \E v \in 0..Get(m.map[k]) : \A j \in NonNull(m.map) : m.map[j] # Some(v)

\* C13: leds_count_from_matrix_map fails for every map with width <= 0 or
\* height <= 0, with length other than width * height, with no non-null entry,
\* with a duplicated index or with a value missing between 0 and the largest
\* index, and succeeds for every other map of non-negative integers and nulls;
\* [0,null,1,null] on 2x2 gives 2, [0,0,1,null] and [1,null,null,null] fail.
MatrixMapRejections ==
    stage = "parsed" =>
        /\ (\A k \in NonNull(arg.map) : Get(arg.map[k]) >= 0) =>
              ((parsed = None) <=>
                  (BadSize(arg) \/ BadLength(arg) \/ NoLeds(arg)
                      \/ HasDuplicate(arg) \/ HasMissing(arg)))
        /\ arg = [width |-> 2, height |-> 2, map |-> <<Some(0), None, Some(1), None>>]
              => parsed = Some(2)
        /\ arg = [width |-> 2, height |-> 2, map |-> <<Some(0), Some(0), Some(1), None>>]
              => parsed = None
        /\ arg = [width |-> 2, height |-> 2, map |-> <<Some(1), None, None, None>>]
              => parsed = None

\* The 2x2 map [1,null,null,null], whose index 0 is missing, was rejected.
MatrixMapRejectionsWitness ==
    /\ stage = "parsed"
    /\ arg = [width |-> 2, height |-> 2, map |-> <<Some(1), None, None, None>>]
    /\ parsed = None

---------------------------------------------------------------------------
(* config.py: raw (JSON) values and the conversions the validator applies. *)
(* A raw value is a pair <<tag, payload>>: an integer, a string (a         *)
(* sequence of characters), null, a list (a sequence of raw values) or a   *)
(* dict (a function from key names to raw values).                         *)

SCHEMA_VERSION == 1
DEFAULT_DEVICE_NAME == <<"T", "e", "s", "t", "M", "a", "t", "r", "i", "x">>
DEFAULT_UDP_PORT == 9999
DEFAULT_PIXEL_SIZE == 6

JInt(n) == <<"int", n>>
JStr(chars) == <<"str", chars>>
JNull == <<"null", 0>>
JList(seq) == <<"list", seq>>
JDict(d) == <<"dict", d>>

IsInt(v) == v[1] = "int"
IsStr(v) == v[1] = "str"
IsNull(v) == v[1] = "null"
IsList(v) == v[1] = "list"
IsDict(v) == v[1] = "dict"

\* A dict without keys, a dict of one key, and the union of two dicts.
NoKeys == [k \in {} |-> JNull]
Key(k, v) == [j \in {k} |-> v]
Merge(d, e) == [k \in (DOMAIN d) \cup (DOMAIN e) |-> IF k \in DOMAIN d THEN d[k] ELSE e[k]]

\* dict.get(key, default) on the payload of a dict.
DictGet(d, key, default) == IF key \in DOMAIN d THEN d[key] ELSE default

\* The result of a step that may raise: ok with a value, or the failure.
Ok(x) == [ok |-> TRUE, value |-> x]
Fail == [ok |-> FALSE]

Whitespace == {" "}

\* str.strip(): leading and trailing whitespace removed.
RECURSIVE LStrip(_)
LStrip(s) == IF Len(s) > 0 /\ s[1] \in Whitespace THEN LStrip(Tail(s)) ELSE s
RECURSIVE RStrip(_)
RStrip(s) ==
    IF Len(s) > 0 /\ s[Len(s)] \in Whitespace THEN RStrip(SubSeq(s, 1, Len(s) - 1)) ELSE s
Strip(s) == RStrip(LStrip(s))

\* str.lower() on the letters the inputs use.
LowerChar(c) ==
    CASE c = "S" -> "s" [] c = "L" -> "l" [] c = "M" -> "m" [] c = "G" -> "g"
      [] c = "I" -> "i" [] c = "N" -> "n" [] c = "E" -> "e" [] c = "A" -> "a"
      [] c = "R" -> "r" [] c = "D" -> "d" [] c = "T" -> "t" [] c = "P" -> "p"
      [] c = "X" -> "x" [] OTHER -> c
Lower(s) == [k \in 1..Len(s) |-> LowerChar(s[k])]

\* int(x): an integer is itself, a string of one digit is parsed, anything
\* else (null, other strings, lists, dicts) raises.
DigitValue(c) ==
    CASE c = "0" -> 0 [] c = "1" -> 1 [] c = "2" -> 2 [] c = "3" -> 3 [] OTHER -> -1
ToInt(v) ==
    IF IsInt(v) THEN Ok(v[2])
    ELSE IF IsStr(v) /\ Len(Strip(v[2])) = 1 /\ DigitValue(Strip(v[2])[1]) >= 0
         THEN Ok(DigitValue(Strip(v[2])[1]))
    ELSE Fail

\* str(x) for the values an id or a name may have.
DigitChar(n) == CASE n = 0 -> "0" [] n = 1 -> "1" [] n = 2 -> "2" [] OTHER -> "3"
ToStr(v) ==
    IF IsStr(v) THEN v[2]
    ELSE IF IsNull(v) THEN <<"N", "o", "n", "e">>
    ELSE IF IsInt(v) THEN <<DigitChar(v[2])>>
    ELSE <<"?">>

\* The spellings normalize_output_type accepts, lower-cased.
SingleSpellings == { <<"s", "i", "n", "g", "l", "e">> }
LinearSpellings ==
    { <<"l", "i", "n", "e", "a", "r">>, <<"s", "t", "r", "i", "p">>,
      <<"l", "e", "d", "s", "t", "r", "i", "p">> }
MatrixSpellings == { <<"m", "a", "t", "r", "i", "x">>, <<"g", "r", "i", "d">> }

\* normalize_output_type: the canonical type, or the failure.
normalize_output_type(value) ==
    IF ~IsStr(value) THEN Fail
    ELSE LET v == Strip(value[2])
             lowered == Lower(v)
         IN IF Len(v) = 0 THEN Fail
            ELSE IF lowered \in SingleSpellings THEN Ok("Single")
            ELSE IF lowered \in LinearSpellings THEN Ok("Linear")
            ELSE IF lowered \in MatrixSpellings THEN Ok("Matrix")
            ELSE Fail

---------------------------------------------------------------------------
(* config.py: the validator (raw dict -> DeviceConfig) and the encoder.    *)

\* The entries of matrix.map converted: None stays None, anything else goes
\* through int(); the failure if some int() raises.
RECURSIVE ConvertMap(_, _)
ConvertMap(raw_map, k) ==
    IF k = 0 THEN Ok(<<>>)
    ELSE LET prev == ConvertMap(raw_map, k - 1)
             v == raw_map[k]
         IN IF ~prev.ok THEN Fail
            ELSE IF IsNull(v) THEN Ok(Append(prev.value, None))
            ELSE IF ~ToInt(v).ok THEN Fail
            ELSE Ok(Append(prev.value, Some(ToInt(v).value)))

\* parse_matrix_map: the MatrixMapConfig, or the failure.
parse_matrix_map(raw) ==
    IF ~IsDict(raw) THEN Fail
    ELSE LET width == ToInt(DictGet(raw[2], "width", JInt(0)))
             height == ToInt(DictGet(raw[2], "height", JInt(0)))
             raw_map == DictGet(raw[2], "map", JNull)
         IN IF ~width.ok \/ ~height.ok THEN Fail
            ELSE IF ~IsList(raw_map) THEN Fail
            ELSE LET map == ConvertMap(raw_map[2], Len(raw_map[2]))
                 IN IF ~map.ok THEN Fail
                    ELSE LET m == [width |-> width.value, height |-> height.value,
                                   map |-> map.value]
                         IN IF leds_count_from_matrix_map(m) = None THEN Fail ELSE Ok(m)

\* Mutation of InvalidLength: a length of 0 is let through.
InvalidLengthOnlyNegative(length) == length < 0

\* config.py line 145: `if length <= 0`.
InvalidLength(length) == length <= 0

\* parse_output, output_type Single.
ParseSingle(raw, output_id, name) ==
    LET leds_count == ToInt(DictGet(raw, "leds_count", JInt(1)))
    IN IF ~leds_count.ok THEN Fail
       ELSE IF leds_count.value # 1 THEN Fail
       ELSE Ok([id |-> output_id, name |-> name, output_type |-> "Single",
                leds_count |-> 1, matrix |-> None])

\* parse_output, output_type Linear.
ParseLinear(raw, output_id, name) ==
    LET length_raw == DictGet(raw, "length", JNull)
        leds_count_raw == DictGet(raw, "leds_count", JNull)
    IN IF IsNull(length_raw) /\ IsNull(leds_count_raw) THEN Fail
       ELSE LET length == ToInt(IF ~IsNull(length_raw) THEN length_raw ELSE leds_count_raw)
            IN IF ~length.ok THEN Fail
               ELSE IF InvalidLength(length.value) THEN Fail
               ELSE IF ~IsNull(length_raw) /\ ~IsNull(leds_count_raw)
                       /\ (~ToInt(length_raw).ok \/ ~ToInt(leds_count_raw).ok
                           \/ ToInt(length_raw).value # ToInt(leds_count_raw).value)
                    THEN Fail
               ELSE Ok([id |-> output_id, name |-> name, output_type |-> "Linear",
                        leds_count |-> length.value, matrix |-> None])

\* parse_output, output_type Matrix.
ParseMatrix(raw, output_id, name) ==
    LET matrix == parse_matrix_map(DictGet(raw, "matrix", JNull))
    IN IF ~matrix.ok THEN Fail
       ELSE LET derived == Get(leds_count_from_matrix_map(matrix.value))
                hinted == DictGet(raw, "leds_count", JNull)
            IN IF ~IsNull(hinted) /\ (~ToInt(hinted).ok \/ ToInt(hinted).value # derived)
               THEN Fail
               ELSE Ok([id |-> output_id, name |-> name, output_type |-> "Matrix",
                        leds_count |-> derived, matrix |-> Some(matrix.value)])

\* parse_output: the OutputConfig of one raw output, or the failure.
parse_output(raw) ==
    IF ~IsDict(raw) THEN Fail
    ELSE LET output_id == Strip(ToStr(DictGet(raw[2], "id", JStr(<<>>))))
             stripped == Strip(ToStr(DictGet(raw[2], "name", JStr(<<>>))))
             name == IF Len(stripped) = 0 THEN output_id ELSE stripped
             output_type == normalize_output_type(DictGet(raw[2], "output_type", JNull))
         IN IF Len(output_id) = 0 THEN Fail
            ELSE IF ~output_type.ok THEN Fail
            ELSE IF output_type.value = "Single" THEN ParseSingle(raw[2], output_id, name)
            ELSE IF output_type.value = "Linear" THEN ParseLinear(raw[2], output_id, name)
            ELSE ParseMatrix(raw[2], output_id, name)

\* Mutation of IsDuplicateId: no id is ever taken for a duplicate.
IsDuplicateIdNever(id, ids) == FALSE

\* config.py line 190: `if out.id in ids`.
IsDuplicateId(id, ids) == id \in ids

\* Mutation of ParseOutputs: an output that fails to parse is left out and
\* the loop goes on.
RECURSIVE ParseOutputsSkipping(_, _)
ParseOutputsSkipping(outputs_raw, k) ==
    IF k = 0 THEN Ok([outputs |-> <<>>, ids |-> {}])
    ELSE LET prev == ParseOutputsSkipping(outputs_raw, k - 1)
             out == parse_output(outputs_raw[k])
         IN IF ~prev.ok THEN Fail
            ELSE IF ~out.ok THEN prev
            ELSE IF IsDuplicateId(out.value.id, prev.value.ids) THEN Fail
            ELSE Ok([outputs |-> Append(prev.value.outputs, out.value),
                     ids |-> prev.value.ids \cup {out.value.id}])

\* The loop of device_config_from_dict over the first k raw outputs: the
\* locals outputs and ids, or the failure.
RECURSIVE ParseOutputs(_, _)
ParseOutputs(outputs_raw, k) ==
    IF k = 0 THEN Ok([outputs |-> <<>>, ids |-> {}])
    ELSE LET prev == ParseOutputs(outputs_raw, k - 1)
             out == parse_output(outputs_raw[k])
         IN IF ~prev.ok THEN Fail
            ELSE IF ~out.ok THEN Fail
            ELSE IF IsDuplicateId(out.value.id, prev.value.ids) THEN Fail
            ELSE Ok([outputs |-> Append(prev.value.outputs, out.value),
                     ids |-> prev.value.ids \cup {out.value.id}])

\* device_config_from_dict: the DeviceConfig, or the failure.
device_config_from_dict(raw) ==
    IF ~IsDict(raw) THEN Fail
    ELSE LET schema_version == ToInt(DictGet(raw[2], "schema_version", JInt(SCHEMA_VERSION)))
             stripped == Strip(ToStr(DictGet(raw[2], "device_name",
                                             JStr(DEFAULT_DEVICE_NAME))))
             device_name == IF Len(stripped) = 0 THEN DEFAULT_DEVICE_NAME ELSE stripped
             udp_port == ToInt(DictGet(raw[2], "udp_port", JInt(DEFAULT_UDP_PORT)))
             pixel_size == ToInt(DictGet(raw[2], "pixel_size", JInt(DEFAULT_PIXEL_SIZE)))
             outputs_raw == DictGet(raw[2], "outputs", JList(<<>>))
         IN IF ~schema_version.ok \/ ~udp_port.ok \/ ~pixel_size.ok THEN Fail
            ELSE IF ~IsList(outputs_raw) THEN Fail
            ELSE IF Len(outputs_raw[2]) = 0 THEN Fail
            ELSE LET loop == ParseOutputs(outputs_raw[2], Len(outputs_raw[2]))
                 IN IF ~loop.ok THEN Fail
                    ELSE Ok([schema_version |-> schema_version.value,
                             device_name |-> device_name,
                             udp_port |-> udp_port.value,
                             pixel_size |-> pixel_size.value,
                             outputs |-> loop.value.outputs])

\* Mutation of TypeChars: the type is written in lower case.
TypeCharsLower(output_type) ==
    CASE output_type = "Single" -> <<"s", "i", "n", "g", "l", "e">>
      [] output_type = "Linear" -> <<"l", "i", "n", "e", "a", "r">>
      [] OTHER -> <<"m", "a", "t", "r", "i", "x">>

\* The characters of a canonical output type.
TypeChars(output_type) ==
    CASE output_type = "Single" -> <<"S", "i", "n", "g", "l", "e">>
      [] output_type = "Linear" -> <<"L", "i", "n", "e", "a", "r">>
      [] OTHER -> <<"M", "a", "t", "r", "i", "x">>

\* Mutation of LinearFields: no length is written.
LinearFieldsNone(out) == NoKeys

\* config.py line 217: `item["length"] = out.leds_count`.
LinearFields(out) == Key("length", JInt(out.leds_count))

\* config.py lines 221-225: the matrix block.
MatrixFields(out) ==
    LET m == Get(out.matrix)
    IN Key("matrix",
           JDict(Merge(Key("width", JInt(m.width)),
                 Merge(Key("height", JInt(m.height)),
                       Key("map", JList([k \in 1..Len(m.map) |->
                                            IF m.map[k] = None THEN JNull
                                            ELSE JInt(Get(m.map[k]))]))))))

\* device_config_to_dict, one output: the dict of an OutputConfig.
EncodeOutput(out) ==
    LET item == Merge(Key("id", JStr(out.id)),
                Merge(Key("name", JStr(out.name)),
                Merge(Key("output_type", JStr(TypeChars(out.output_type))),
                      Key("leds_count", JInt(out.leds_count)))))
    IN IF out.output_type = "Single" THEN JDict(item)
       ELSE IF out.output_type = "Linear" THEN JDict(Merge(item, LinearFields(out)))
       ELSE JDict(Merge(item, MatrixFields(out)))

\* device_config_to_dict on a DeviceConfig the validator returned.
device_config_to_dict(c) ==
    JDict(Merge(Key("schema_version", JInt(c.schema_version)),
          Merge(Key("device_name", JStr(c.device_name)),
          Merge(Key("udp_port", JInt(c.udp_port)),
          Merge(Key("pixel_size", JInt(c.pixel_size)),
                Key("outputs", JList([k \in 1..Len(c.outputs) |->
                                         EncodeOutput(c.outputs[k])])))))))

---------------------------------------------------------------------------
(* SpecParse: device_config_from_dict applied to raw configs, the result   *)
(* encoded by device_config_to_dict and parsed again.                      *)

MaxRawOutputs == 2

\* The canonical spellings of the output types, as a raw config writes them.
SingleName == <<"S", "i", "n", "g", "l", "e">>
LinearName == <<"L", "i", "n", "e", "a", "r">>
MatrixName == <<"M", "a", "t", "r", "i", "x">>

\* A dict key that is present with value Get(opt), or absent when opt is None.
Field(k, opt) == IF opt = None THEN NoKeys ELSE Key(k, Get(opt))

RawOutput(id, name, output_type, leds_count, length, matrix) ==
    JDict(Merge(Field("id", id), Merge(Field("name", name),
          Merge(Field("output_type", output_type), Merge(Field("leds_count", leds_count),
          Merge(Field("length", length), Field("matrix", matrix)))))))

RawMatrix(width, height, map) ==
    JDict(Merge(Key("width", JInt(width)), Merge(Key("height", JInt(height)),
                Key("map", JList(map)))))

\* Raw outputs: canonical ones, ones that rely on aliases, defaults, padding
\* or conversions, and ones that break each validation rule.
ValidRawOutputs ==
    { RawOutput(Some(JStr(<<"a">>)), Some(JStr(<<"n">>)), Some(JStr(SingleName)),
                Some(JInt(1)), None, None),
      RawOutput(Some(JStr(<<" ", "a">>)), None, Some(JStr(<<"s", "i", "n", "g", "l", "e">>)),
                None, None, None),
      RawOutput(Some(JStr(<<"c">>)), Some(JStr(<<"n">>)), Some(JStr(SingleName)),
                Some(JStr(<<"1">>)), Some(JInt(3)), None),
      RawOutput(Some(JStr(<<"b">>)), Some(JStr(<<"b">>)), Some(JStr(LinearName)),
                Some(JInt(2)), Some(JInt(2)), None),
      RawOutput(Some(JStr(<<"b">>)), Some(JStr(<<" ">>)), Some(JStr(<<"S", "t", "r", "i", "p">>)),
                None, Some(JInt(2)), None),
      RawOutput(Some(JStr(<<"l">>)), Some(JStr(<<"n">>)), Some(JStr(LinearName)),
                Some(JInt(1)), None, None),
      RawOutput(Some(JStr(<<"m">>)), Some(JStr(<<"m">>)), Some(JStr(MatrixName)),
                Some(JInt(2)), None, Some(RawMatrix(2, 1, <<JInt(1), JInt(0)>>))),
      RawOutput(Some(JStr(<<"m">>)), None, Some(JStr(<<"g", "r", "i", "d">>)),
                None, None, Some(RawMatrix(2, 1, <<JNull, JInt(0)>>))) }

InvalidRawOutputs ==
    { JInt(5),
      RawOutput(None, Some(JStr(<<"n">>)), Some(JStr(SingleName)), None, None, None),
      RawOutput(Some(JStr(<<"a">>)), None, Some(JStr(<<"b", "o", "g", "u", "s">>)),
                None, None, None),
      RawOutput(Some(JStr(<<"a">>)), None, Some(JStr(SingleName)),
                Some(JInt(2)), None, None),
      RawOutput(Some(JStr(<<"b">>)), None, Some(JStr(LinearName)),
                Some(JInt(1)), Some(JInt(2)), None),
      RawOutput(Some(JStr(<<"b">>)), None, Some(JStr(LinearName)),
                None, Some(JInt(0)), None),
      RawOutput(Some(JStr(<<"b">>)), None, Some(JStr(LinearName)),
                None, None, None),
      RawOutput(Some(JStr(<<"m">>)), None, Some(JStr(MatrixName)),
                Some(JInt(1)), None, Some(RawMatrix(2, 1, <<JInt(1), JInt(0)>>))),
      RawOutput(Some(JStr(<<"m">>)), None, Some(JStr(MatrixName)),
                None, None, Some(RawMatrix(2, 1, <<JInt(0)>>))),
      RawOutput(Some(JStr(<<"m">>)), None, Some(JStr(MatrixName)),
                None, None, Some(RawMatrix(2, 1, <<JInt(0), JInt(0)>>))),
      RawOutput(Some(JStr(<<"m">>)), None, Some(JStr(MatrixName)),
                None, None, Some(RawMatrix(2, 1, <<JInt(1), JNull>>))),
      RawOutput(Some(JStr(<<"m">>)), None, Some(JStr(MatrixName)),
                None, None, None) }

RawOutputs == ValidRawOutputs \cup InvalidRawOutputs

\* The top-level fields other than outputs: all given, or left to the defaults.
RawHeaders ==
    { Merge(Key("schema_version", JInt(1)), Merge(Key("device_name", JStr(<<"d">>)),
            Merge(Key("udp_port", JInt(7)), Key("pixel_size", JInt(4))))),
      Key("device_name", JStr(<<" ">>)) }

\* The raw configs: a root that is no dict, outputs missing, outputs that is
\* no list, and every list of up to MaxRawOutputs raw outputs.
IsRawConfig(x) ==
    \/ x = JInt(0)
    \/ \E h \in RawHeaders :
          \/ x = JDict(h)
          \/ x = JDict(Merge(h, Key("outputs", JStr(<<"a">>))))
          \/ \E n \in 0..MaxRawOutputs : \E os \in [1..n -> RawOutputs] :
                x = JDict(Merge(h, Key("outputs", JList(os))))

InitParse ==
    /\ Unbuilt(<<>>)
    /\ call = NoCall
    /\ run = NoRun
    /\ NoThreads
    /\ IsRawConfig(arg)
    /\ stage = "input"
    /\ parsed = <<>>
    /\ encoded = <<>>
    /\ reparsed = <<>>
    /\ NoServer
    /\ NoNet
    /\ NoLoop

\* device_config_from_dict(arg).
ParseConfig ==
    /\ stage = "input"
    /\ stage' = "parsed"
    /\ parsed' = device_config_from_dict(arg)
    /\ UNCHANGED <<progVars, call, run, concVars, serverVars, netVars, loopVars, arg, encoded, reparsed>>

\* device_config_to_dict of the DeviceConfig the validator returned.
EncodeConfig ==
    /\ stage = "parsed"
    /\ parsed.ok
    /\ stage' = "encoded"
    /\ encoded' = device_config_to_dict(parsed.value)
    /\ UNCHANGED <<progVars, call, run, concVars, serverVars, netVars, loopVars, arg, parsed, reparsed>>

\* device_config_from_dict of the encoded form.
ReparseConfig ==
    /\ stage = "encoded"
    /\ stage' = "reparsed"
    /\ reparsed' = device_config_from_dict(encoded)
    /\ UNCHANGED <<progVars, call, run, concVars, serverVars, netVars, loopVars, arg, parsed, encoded>>

NextParse == ParseConfig \/ EncodeConfig \/ ReparseConfig

SpecParse == InitParse /\ [][NextParse]_vars

---------------------------------------------------------------------------
(* SpecOutput: parse_output applied to Linear raw outputs with every       *)
(* combination of length and leds_count.                                   *)

LinearTypeNames ==
    { LinearName, <<"l", "i", "n", "e", "a", "r">>,
      <<"s", "t", "r", "i", "p">>, <<" ", "L", "E", "D", "s", "t", "r", "i", "p">> }

\* A count field: absent, null, or an integer from -1 to MaxLen.
CountFields == {None, Some(JNull)} \cup { Some(JInt(n)) : n \in (-1)..MaxLen }

InitOutput ==
    /\ Unbuilt(<<>>)
    /\ call = NoCall
    /\ run = NoRun
    /\ NoThreads
    /\ \E t \in LinearTypeNames, leds_count \in CountFields, length \in CountFields :
          arg = RawOutput(Some(JStr(<<"a">>)), None, Some(JStr(t)), leds_count, length, None)
    /\ stage = "input"
    /\ parsed = <<>>
    /\ encoded = <<>>
    /\ reparsed = <<>>
    /\ NoServer
    /\ NoNet
    /\ NoLoop

\* parse_output(arg).
ParseOutput ==
    /\ stage = "input"
    /\ stage' = "parsed"
    /\ parsed' = parse_output(arg)
    /\ UNCHANGED <<progVars, call, run, concVars, serverVars, netVars, loopVars, arg, encoded, reparsed>>

NextOutput == ParseOutput

SpecOutput == InitOutput /\ [][NextOutput]_vars

---------------------------------------------------------------------------
(* Validation and serialization.                                           *)

\* The raw outputs of a raw config whose outputs field is a list.
RawList(x) == DictGet(x[2], "outputs", JList(<<>>))[2]

\* The payload of encoded output k.
EncodedOutput(k) == encoded[2]["outputs"][2][k][2]

\* C14: for every DeviceConfig c the validator returned, parsing the
\* encoding of c succeeds and gives c again; the encoding carries a length
\* equal to leds_count for each Linear output and a matrix block with width,
\* height and map for each Matrix output.
ReparseGivesSameConfig ==
    stage = "reparsed" =>
        /\ reparsed.ok
        /\ reparsed.value = parsed.value
        /\ \A k \in 1..Len(parsed.value.outputs) :
              LET out == parsed.value.outputs[k]
                  item == EncodedOutput(k)
              IN /\ out.output_type = "Linear" =>
                       /\ "length" \in DOMAIN item
                       /\ item["length"] = JInt(out.leds_count)
                 /\ out.output_type = "Matrix" =>
                       /\ "matrix" \in DOMAIN item
                       /\ IsDict(item["matrix"])
                       /\ DOMAIN item["matrix"][2] = {"width", "height", "map"}
                       /\ item["matrix"][2]["width"] = JInt(Get(out.matrix).width)
                       /\ item["matrix"][2]["height"] = JInt(Get(out.matrix).height)
                       /\ Len(item["matrix"][2]["map"][2]) = Len(Get(out.matrix).map)

\* A config of a strip given by an alias and a sparse matrix given without a
\* hint went through encoding and parsing and came back equal.
ReparseGivesSameConfigWitness ==
    /\ stage = "reparsed"
    /\ Len(parsed.value.outputs) = 2
    /\ parsed.value.outputs[1].output_type = "Linear"
    /\ parsed.value.outputs[2].output_type = "Matrix"
    /\ parsed.value.outputs[2].matrix = Some([width |-> 2, height |-> 1, map |-> <<None, Some(0)>>])
    /\ encoded # arg
    /\ reparsed = parsed

\* C15 as claimed: for any valid raw config x, encoding the parsed config
\* gives x again (dicts compare regardless of field order).
EncodeReproducesRaw ==
    stage \in {"encoded", "reparsed"} => encoded = arg

IsStrippedName(v) == IsStr(v) /\ Len(v[2]) > 0 /\ Strip(v[2]) = v[2]

\* A raw matrix block in the form the encoder writes.
IsCanonicalMatrix(v) ==
    /\ IsDict(v)
    /\ DOMAIN v[2] = {"width", "height", "map"}
    /\ IsInt(v[2]["width"])
    /\ IsInt(v[2]["height"])
    /\ IsList(v[2]["map"])
    /\ \A k \in 1..Len(v[2]["map"][2]) :
          IsInt(v[2]["map"][2][k]) \/ IsNull(v[2]["map"][2][k])

\* A raw output in the form the encoder writes: exactly its keys, the type
\* spelled canonically, id and name non-empty without padding, integers.
IsCanonicalOutput(v) ==
    /\ IsDict(v)
    /\ {"id", "name", "output_type", "leds_count"} \subseteq DOMAIN v[2]
    /\ IsStrippedName(v[2]["id"])
    /\ IsStrippedName(v[2]["name"])
    /\ IsInt(v[2]["leds_count"])
    /\ \/ /\ v[2]["output_type"] = JStr(SingleName)
          /\ DOMAIN v[2] = {"id", "name", "output_type", "leds_count"}
       \/ /\ v[2]["output_type"] = JStr(LinearName)
          /\ DOMAIN v[2] = {"id", "name", "output_type", "leds_count", "length"}
          /\ IsInt(v[2]["length"])
       \/ /\ v[2]["output_type"] = JStr(MatrixName)
          /\ DOMAIN v[2] = {"id", "name", "output_type", "leds_count", "matrix"}
          /\ IsCanonicalMatrix(v[2]["matrix"])

\* A raw config in the form the encoder writes.
IsCanonicalRaw(x) ==
    /\ IsDict(x)
    /\ DOMAIN x[2] = {"schema_version", "device_name", "udp_port", "pixel_size", "outputs"}
    /\ IsInt(x[2]["schema_version"])
    /\ IsInt(x[2]["udp_port"])
    /\ IsInt(x[2]["pixel_size"])
    /\ IsStrippedName(x[2]["device_name"])
    /\ IsList(x[2]["outputs"])
    /\ \A k \in 1..Len(x[2]["outputs"][2]) : IsCanonicalOutput(x[2]["outputs"][2][k])

\* C15 as amended: for any valid raw config x that is in the encoder's
\* canonical form, encoding the parsed config gives x again.
EncodeReproducesCanonicalRaw ==
    stage \in {"encoded", "reparsed"} /\ IsCanonicalRaw(arg) => encoded = arg

\* A canonical raw config of a Linear and a Matrix output was parsed and encoded.
EncodeReproducesCanonicalRawWitness ==
    /\ stage = "encoded"
    /\ IsCanonicalRaw(arg)
    /\ Len(parsed.value.outputs) = 2
    /\ parsed.value.outputs[1].output_type = "Linear"
    /\ parsed.value.outputs[2].output_type = "Matrix"

\* The id the validator reads from a raw output.
RawId(o) == Strip(ToStr(DictGet(o[2], "id", JStr(<<>>))))

\* C16: device_config_from_dict rejects a raw config whose outputs is
\* missing, not a list or empty, and one in which two outputs have the same
\* id; an accepted config has as many outputs as the input list, their ids in
\* the order of the input list, and all ids pairwise distinct.
OutputsListRules ==
    stage # "input" /\ IsDict(arg) =>
        LET given == "outputs" \in DOMAIN arg[2]
            list == given /\ IsList(arg[2]["outputs"])
        IN /\ (~given \/ ~list \/ Len(RawList(arg)) = 0) => ~parsed.ok
           /\ (list /\ \E j, k \in 1..Len(RawList(arg)) :
                          /\ j # k
                          /\ IsDict(RawList(arg)[j])
                          /\ IsDict(RawList(arg)[k])
                          /\ RawId(RawList(arg)[j]) = RawId(RawList(arg)[k])) => ~parsed.ok
           /\ parsed.ok =>
                 /\ Len(parsed.value.outputs) = Len(RawList(arg))
                 /\ \A k \in 1..Len(RawList(arg)) :
                       parsed.value.outputs[k].id = RawId(RawList(arg)[k])
                 /\ \A j, k \in 1..Len(parsed.value.outputs) :
                       j # k => parsed.value.outputs[j].id # parsed.value.outputs[k].id

\* Two outputs, each valid on its own, whose ids are equal once the padding
\* of one is stripped, were rejected together.
OutputsListRulesWitness ==
    /\ stage = "parsed"
    /\ ~parsed.ok
    /\ IsDict(arg)
    /\ "outputs" \in DOMAIN arg[2]
    /\ IsList(arg[2]["outputs"])
    /\ Len(RawList(arg)) = 2
    /\ parse_output(RawList(arg)[1]).ok
    /\ parse_output(RawList(arg)[2]).ok
    /\ RawList(arg)[1] # RawList(arg)[2]
    /\ RawId(RawList(arg)[1]) = RawId(RawList(arg)[2])

\* C17: loading is all-or-nothing: if any one output of the raw config
\* breaks a validation rule, or two outputs share an id, the validator fails
\* and returns no DeviceConfig, whatever the other outputs are and wherever
\* the offending output stands.
LoadIsAllOrNothing ==
    stage # "input" /\ IsDict(arg) /\ "outputs" \in DOMAIN arg[2]
            /\ IsList(DictGet(arg[2], "outputs", JNull)) =>
        /\ (\E k \in 1..Len(RawList(arg)) : ~parse_output(RawList(arg)[k]).ok) =>
              parsed = Fail
        /\ (\E j, k \in 1..Len(RawList(arg)) :
                /\ j # k
                /\ parse_output(RawList(arg)[j]).ok
                /\ parse_output(RawList(arg)[k]).ok
                /\ parse_output(RawList(arg)[j]).value.id
                      = parse_output(RawList(arg)[k]).value.id) =>
              parsed = Fail
        /\ parsed.ok =>
              \A k \in 1..Len(RawList(arg)) :
                  parsed.value.outputs[k] = parse_output(RawList(arg)[k]).value

\* A valid output followed by a matrix with a duplicate index: nothing was loaded.
LoadIsAllOrNothingWitness ==
    /\ stage = "parsed"
    /\ parsed = Fail
    /\ IsDict(arg)
    /\ "outputs" \in DOMAIN arg[2]
    /\ IsList(arg[2]["outputs"])
    /\ Len(RawList(arg)) = 2
    /\ parse_output(RawList(arg)[1]).ok
    /\ RawList(arg)[2] = RawOutput(Some(JStr(<<"m">>)), None, Some(JStr(MatrixName)),
                                   None, None, Some(RawMatrix(2, 1, <<JInt(0), JInt(0)>>)))

\* A count field of a raw output is given when the key is there and not null.
IsGiven(o, key) == key \in DOMAIN o[2] /\ ~IsNull(o[2][key])

\* C18: parse_output accepts a Linear output exactly when length or
\* leds_count is given, the effective length (length if given, else
\* leds_count) is positive and, when both are given, they are equal; the
\* leds_count of the result is that length.
LinearLengthRules ==
    stage = "parsed" =>
        LET has_length == IsGiven(arg, "length")
            has_count == IsGiven(arg, "leds_count")
            effective == IF has_length THEN arg[2]["length"][2] ELSE arg[2]["leds_count"][2]
            accepted == /\ has_length \/ has_count
                        /\ effective > 0
                        /\ (has_length /\ has_count) =>
                              arg[2]["length"][2] = arg[2]["leds_count"][2]
        IN /\ parsed.ok <=> accepted
           /\ parsed.ok =>
                 /\ parsed.value.output_type = "Linear"
                 /\ parsed.value.leds_count = effective

\* A strip given by leds_count alone, with length null, was accepted with 2 LEDs.
LinearLengthRulesWitness ==
    /\ stage = "parsed"
    /\ parsed.ok
    /\ parsed.value.leds_count = 2
    /\ ~IsGiven(arg, "length")
    /\ "length" \in DOMAIN arg[2]
    /\ arg[2]["leds_count"] = JInt(2)

---------------------------------------------------------------------------
(* SpecServer: virtual_device.py, the life cycle of VirtualDeviceServer.   *)
(* start() and stop() are whole calls of the owning thread; the receive    *)
(* thread and the other users of the UDP port are the environment.         *)

MaxStarts == 2

\* The position in outs of its first output of the given type, 0 if none.
FirstOfType(outs, type) ==
    IF \E k \in 1..Len(outs) : outs[k].output_type = type
    THEN CHOOSE k \in 1..Len(outs) :
            /\ outs[k].output_type = type
            /\ \A j \in 1..(k - 1) : outs[j].output_type # type
    ELSE 0

\* Mutation of primary_dimensions: the first output that is a Matrix or a
\* Linear decides.
primary_dimensions_first(outs) ==
    LET firsts == { k \in 1..Len(outs) : outs[k].output_type \in {"Matrix", "Linear"} }
    IN IF firsts = {} THEN <<1, 1>>
       ELSE LET k == CHOOSE f \in firsts : \A g \in firsts : f <= g
            IN IF outs[k].output_type = "Matrix"
               THEN <<outs[k].virtual_width, outs[k].virtual_height>>
               ELSE <<Min(outs[k].virtual_width, 65535), 1>>

\* DeviceRuntime.primary_dimensions (runtime.py 145-152).
primary_dimensions(outs) ==
    LET m == FirstOfType(outs, "Matrix")
        l == FirstOfType(outs, "Linear")
    IN IF m # 0 THEN <<outs[m].virtual_width, outs[m].virtual_height>>
       ELSE IF l # 0 THEN <<Min(outs[l].virtual_width, 65535), 1>>
       ELSE <<1, 1>>

\* str(n) for an integer n >= 0: its decimal digits.
RECURSIVE Decimal(_)
Decimal(n) ==
    LET digit == <<"0", "1", "2", "3", "4", "5", "6", "7", "8", "9">>[(n % 10) + 1]
    IN IF n < 10 THEN <<digit>> ELSE Append(Decimal(n \div 10), digit)

\* virtual_device.py lines 109-112: the width and height entries of the
\* properties given to ServiceInfo.
ServiceProperties(outs) ==
    LET dims == primary_dimensions(outs)
    IN [width |-> Decimal(dims[1]), height |-> Decimal(dims[2])]

\* What creating the registrar and registering the service may do
\* (virtual_device.py 98-137): the zeroconf package is missing, Zeroconf()
\* raises, register_service raises, or the service is registered.
RegistrarOutcomes == {"missing", "ctor_raises", "register_raises", "registered"}

\* Mutation of ProceedsAfterBind: start() goes on after a failed bind.
ProceedsAfterBindAlways(bound) == TRUE

\* virtual_device.py line 53: an exception of bind() leaves start().
ProceedsAfterBind(bound) == bound

\* The fields of the server object.
ServerFields == <<running, udp_socket, thread, zeroconf, service_info>>

\* The history of a call: what it found, what the registrar did in it ("none"
\* when _register_mdns was not reached) and whether it changed anything.
RecordCall(op, bind_failed, raised, registrar) ==
    srv' = [op |-> op, was_running |-> running, bind_failed |-> bind_failed,
            raised |-> raised, registrar |-> registrar,
            changed |-> (ServerFields' # ServerFields \/ sockets' # sockets
                            \/ threads' # threads \/ registrations' # registrations
                            \/ log' # log),
            sockets |-> Len(sockets), threads |-> Len(threads),
            registrations |-> registrations, logs |-> Len(log)]

\* _register_mdns (virtual_device.py 98-137) with the given outcome, followed
\* by the log line of start() when it returns.
RegisterMdns(outcome) ==
    IF outcome = "missing"
    THEN /\ log' = log \o <<"mdns skipped", "started">>
         /\ UNCHANGED <<zeroconf, service_info, registrations, properties>>
    ELSE IF outcome = "ctor_raises"
    THEN /\ properties' = ServiceProperties(outputs)
         /\ service_info' = TRUE
         /\ UNCHANGED <<zeroconf, registrations, log>>
    ELSE IF outcome = "register_raises"
    THEN /\ properties' = ServiceProperties(outputs)
         /\ service_info' = TRUE
         /\ zeroconf' = TRUE
         /\ registrations' = registrations + 1
         /\ UNCHANGED log
    ELSE /\ properties' = ServiceProperties(outputs)
         /\ service_info' = TRUE
         /\ zeroconf' = TRUE
         /\ registrations' = registrations + 1
         /\ log' = log \o <<"mdns registered", "started">>

\* VirtualDeviceServer.start (virtual_device.py 45-62).
Start ==
    /\ phase = "ready"
    /\ IF running
       THEN /\ UNCHANGED <<running, udp_socket, thread, zeroconf, service_info,
                           sockets, threads, registrations, log, properties>>
            /\ RecordCall("start", FALSE, FALSE, "none")
       ELSE /\ Len(sockets) < MaxStarts
            /\ running' = TRUE
            /\ udp_socket' = Some(Len(sockets) + 1)
            /\ IF ProceedsAfterBind(port_free)
               THEN /\ sockets' = Append(sockets, IF port_free THEN "bound" ELSE "open")
                    /\ threads' = Append(threads, "alive")
                    /\ thread' = Some(Len(threads) + 1)
                    /\ \E outcome \in RegistrarOutcomes :
                          /\ RegisterMdns(outcome)
                          /\ RecordCall("start", ~port_free,
                                        outcome \in {"ctor_raises", "register_raises"},
                                        outcome)
               ELSE /\ sockets' = Append(sockets, "open")
                    /\ UNCHANGED <<thread, threads, zeroconf, service_info,
                                   registrations, log, properties>>
                    /\ RecordCall("start", TRUE, TRUE, "none")
    /\ UNCHANGED <<progVars, call, run, concVars, parseVars, netVars, loopVars, port_free>>

\* VirtualDeviceServer.stop (virtual_device.py 64-92).  join(timeout=1.0)
\* returns when the receive thread has exited or after the timeout: `joined`
\* says which.
Stop ==
    /\ phase = "ready"
    /\ IF ~running
       THEN /\ UNCHANGED <<running, udp_socket, thread, zeroconf, service_info,
                           sockets, threads, registrations, log>>
            /\ RecordCall("stop", FALSE, FALSE, "none")
       ELSE /\ running' = FALSE
            /\ sockets' = IF udp_socket = None THEN sockets
                          ELSE [sockets EXCEPT ![Get(udp_socket)] = "closed"]
            /\ udp_socket' = None
            /\ IF zeroconf /\ service_info
               THEN zeroconf' = FALSE /\ service_info' = FALSE
               ELSE UNCHANGED <<zeroconf, service_info>>
            /\ \E joined \in BOOLEAN :
                  threads' = IF thread # None /\ joined
                             THEN [threads EXCEPT ![Get(thread)] = "exited"]
                             ELSE threads
            /\ thread' = None
            /\ log' = Append(log, "stopped")
            /\ UNCHANGED registrations
            /\ RecordCall("stop", FALSE, FALSE, "none")
    /\ UNCHANGED <<progVars, call, run, concVars, parseVars, netVars, loopVars, port_free,
                   properties>>

\* _udp_loop (virtual_device.py 144): a receive thread that finds _running
\* cleared leaves its loop.
ReceiveLoopExit ==
    /\ ~running
    /\ \E k \in 1..Len(threads) :
          /\ threads[k] = "alive"
          /\ threads' = [threads EXCEPT ![k] = "exited"]
    /\ UNCHANGED <<progVars, call, run, concVars, parseVars, netVars, loopVars, running, udp_socket,
                   thread, zeroconf, service_info, sockets, registrations, log,
                   port_free, srv, properties>>

\* Environment: another process takes or frees the UDP port while the server
\* has no socket bound to it.
PortChange ==
    /\ \A k \in 1..Len(sockets) : sockets[k] # "bound"
    /\ port_free' = ~port_free
    /\ UNCHANGED <<progVars, call, run, concVars, parseVars, netVars, loopVars, running, udp_socket,
                   thread, zeroconf, service_info, sockets, threads, registrations,
                   log, srv, properties>>

InitServer ==
    /\ Ready(StripConfig)
    /\ call = NoCall
    /\ run = NoRun
    /\ NoThreads
    /\ NoExt

NextServer == Start \/ Stop \/ ReceiveLoopExit \/ PortChange

SpecServer == InitServer /\ [][NextServer]_vars

---------------------------------------------------------------------------
(* Server life cycle.                                                      *)

ServerStopped == ~running /\ udp_socket = None /\ thread = None

ServerRunning ==
    /\ running
    /\ udp_socket # None
    /\ sockets[Get(udp_socket)] = "bound"
    /\ thread # None
    /\ threads[Get(thread)] = "alive"

\* C19: the server is always either Stopped or Running; start() on a running
\* instance and stop() on a stopped instance change nothing (no socket, no
\* thread, no registration, no log line); start() from Stopped binds the
\* socket and starts one receive thread; stop() from Running clears the
\* running flag, closes the socket and returns from the bounded join with no
\* thread held.
ServerHasTwoStates ==
    /\ ServerStopped \/ ServerRunning
    /\ (srv.op = "start" /\ srv.was_running) => ~srv.changed
    /\ (srv.op = "stop" /\ ~srv.was_running) => ~srv.changed
    /\ (srv.op = "start" /\ ~srv.was_running) =>
          /\ Len(sockets) = srv.sockets + 1
          /\ sockets[srv.sockets + 1] \in {"bound", "closed"}
          /\ Len(threads) = srv.threads + 1
    /\ (srv.op = "stop" /\ srv.was_running) =>
          /\ ~running
          /\ udp_socket = None
          /\ thread = None
          /\ \A k \in 1..Len(sockets) : sockets[k] # "bound"

\* C20: when bind fails during start(), the failure is raised to the caller
\* of start(), no receive thread is started and no service registration is
\* attempted.
BindFailureSurfaces ==
    (srv.op = "start" /\ srv.bind_failed) =>
        /\ srv.raised
        /\ Len(threads) = srv.threads
        /\ thread = None
        /\ registrations = srv.registrations
        /\ ~zeroconf
        /\ Len(log) = srv.logs

\* A server that ran and was stopped is started again while another process
\* holds the port: start() raised and the only receive thread ever started is
\* the one of the first run.
BindFailureSurfacesWitness ==
    /\ srv.op = "start"
    /\ srv.bind_failed
    /\ srv.raised
    /\ Len(sockets) = 2
    /\ Len(threads) = 1
    /\ registrations = 1

\* C21: when creating the registrar or registering the service raises during
\* start(), the failure is logged and swallowed: start() returns normally and
\* the server is Running with its receive thread alive.
RegistrarFailureSwallowed ==
    (srv.op = "start" /\ srv.registrar \in {"ctor_raises", "register_raises"}) =>
        /\ ~srv.raised
        /\ Len(log) > srv.logs
        /\ ServerRunning

---------------------------------------------------------------------------
(* virtual_device.py: the command dispatch of the receive thread.  A       *)
(* datagram is the sequence of its bytes.  _config_payload is an immutable *)
(* bytes object: the model holds its length and a salt, byte i of it is    *)
(* ByteAt(payload, i), and every slice taken of it is computed into        *)
(* explicit bytes.                                                         *)

CMD_QUERY_INFO == 16
CMD_FRAGMENT_PIXELS == 18
CMD_QUERY_CONFIG == 20
PROTOCOL_VERSION == 4
MAX_UDP_PAYLOAD == 1400

\* runtime.py lines 35-38: name, description and serial as bytes ("TestDevice V4",
\* "TestDevice by Python mDNS", and 16 upper-case hex digits drawn at start).
NameBytes == <<84, 101, 115, 116, 68, 101, 118, 105, 99, 101, 32, 86, 52>>
DescriptionBytes ==
    <<84, 101, 115, 116, 68, 101, 118, 105, 99, 101, 32, 98, 121, 32, 80, 121, 116,
      104, 111, 110, 32, 109, 68, 78, 83>>
SerialBytes == <<48, 49, 50, 51, 52, 53, 54, 55, 56, 57, 65, 66, 67, 68, 69, 70>>

\* Byte i (0-based) of a payload.
ByteAt(payload, i) == (i * 31 + payload.salt) % 256

\* Python's payload[start:end] for 0 <= start.
Bytes(payload, start, end) ==
    LET stop == Min(end, payload.len)
    IN [k \in 1..Max(0, stop - start) |-> ByteAt(payload, start + k - 1)]

\* struct.pack("<H", v) and int.to_bytes(2, "little"): both raise outside 0..65535.
FitsU16(v) == 0 <= v /\ v <= 65535
LE16(v) == <<v % 256, v \div 256>>

\* Mutation of NextRecord: records are taken to be four bytes long.
NextRecordShort(offset) == offset + 4

\* virtual_device.py line 208: the offset of the record after the one at offset.
NextRecord(offset) == offset + 5

\* virtual_device.py lines 200-208: at most count records read from offset on.
RECURSIVE UpdatesLoop(_, _, _)
UpdatesLoop(payload, offset, count) ==
    IF count <= 0 \/ offset + 5 > Len(payload) THEN <<>>
    ELSE << <<payload[offset + 1] + payload[offset + 2] * 256, payload[offset + 3],
              payload[offset + 4], payload[offset + 5]>> >>
         \o UpdatesLoop(payload, NextRecord(offset), count - 1)

\* VirtualDeviceServer._parse_updates (virtual_device.py 185-209); count_hint is
\* Optional.
parse_updates(payload, count_hint) ==
    IF count_hint = None /\ Len(payload) < 2 THEN <<>>
    ELSE LET declared == IF count_hint = None THEN payload[1] + payload[2] * 256
                         ELSE Get(count_hint)
             offset == IF count_hint = None THEN 2 ELSE 0
             expected_len == offset + declared * 5
             count == IF Len(payload) < expected_len
                      THEN Max(0, (Len(payload) - offset) \div 5)
                      ELSE declared
         IN UpdatesLoop(payload, offset, count)

\* VirtualDeviceServer._send_device_info (virtual_device.py 211-247): the
\* datagrams it sends; struct.pack raises on a value outside 16 bits and the
\* except clause returns without sending.
send_device_info(outs, pixel) ==
    LET dims == primary_dimensions(outs)
        name_len == Min(Len(NameBytes), 255)
        desc_len == Min(Len(DescriptionBytes), 255)
        sn_len == Min(Len(SerialBytes), 255)
    IN IF ~FitsU16(dims[1]) \/ ~FitsU16(dims[2]) \/ ~FitsU16(pixel) THEN <<>>
       ELSE << <<CMD_QUERY_INFO, PROTOCOL_VERSION>> \o LE16(dims[1]) \o LE16(dims[2])
               \o LE16(pixel)
               \o <<name_len>> \o SubSeq(NameBytes, 1, name_len)
               \o <<desc_len>> \o SubSeq(DescriptionBytes, 1, desc_len)
               \o <<sn_len>> \o SubSeq(SerialBytes, 1, sn_len) >>

\* virtual_device.py lines 254-255.
MaxChunk == Max(1, MAX_UDP_PAYLOAD - 6)

\* Mutation of TotalFragments: the division rounds down.
TotalFragmentsFloor(len) == len \div MaxChunk

\* virtual_device.py line 257.
TotalFragments(len) == (len + MaxChunk - 1) \div MaxChunk

\* Mutation of TooManyFragments: no payload is refused.
TooManyFragmentsNever(total_fragments) == FALSE

\* virtual_device.py line 258.
TooManyFragments(total_fragments) == total_fragments > 255

\* Mutation of NextMsgId: the counter is not advanced.
NextMsgIdSame(msg_id) == msg_id

\* virtual_device.py line 263.
NextMsgId(msg_id) == (msg_id + 1) % 256

\* virtual_device.py lines 266-273: the datagram of fragment frag_idx.
ConfigFragment(payload, msg_id, total_fragments, frag_idx) ==
    LET start == frag_idx * MaxChunk
        end == Min(start + MaxChunk, payload.len)
        chunk == Bytes(payload, start, end)
    IN <<CMD_QUERY_CONFIG, msg_id, total_fragments, frag_idx>> \o LE16(Len(chunk)) \o chunk

\* VirtualDeviceServer._send_device_config (virtual_device.py 249-274) with a
\* socket: what it sends, logs and leaves in _config_msg_id.  bytes([...])
\* raises ValueError on a value above 255 before anything is sent.
send_device_config(payload, counter) ==
    LET total_fragments == TotalFragments(payload.len)
        msg_id == counter % 256
    IN IF TooManyFragments(total_fragments)
       THEN [sent |-> <<>>, logged |-> TRUE, raised |-> FALSE, counter |-> counter,
             took_id |-> FALSE]
       ELSE IF total_fragments > 255
       THEN [sent |-> <<>>, logged |-> FALSE, raised |-> TRUE,
             counter |-> NextMsgId(counter), took_id |-> TRUE]
       ELSE [sent |-> [k \in 1..total_fragments |->
                          ConfigFragment(payload, msg_id, total_fragments, k - 1)],
             logged |-> FALSE, raised |-> FALSE, counter |-> NextMsgId(counter),
             took_id |-> TRUE]

\* Mutation of IsCommand: only the low five bits of the first byte are compared.
IsCommandLowBits(cmd, code) == cmd % 32 = code % 32

\* virtual_device.py lines 165, 169, 173: the comparison of the first byte.
IsCommand(cmd, code) == cmd = code

\* Mutation of HasUpdates: a fragment is handed to the runtime whatever it carries.
HasUpdatesAlways(updates) == TRUE

\* virtual_device.py line 181: `if updates:`.
HasUpdates(updates) == updates # <<>>

\* What handling a datagram may change: the runtime's buffers, dirty flag and
\* frame-reassembly fields, and the config message id.
Touched ==
    <<buffers, front_buffer, back_buffer, dirty, current_frame_id,
      frame_fragments_received, frame_total_fragments, config_msg_id>>

\* The history of one _process_command: the datagram, the datagrams sent in
\* reply, the updates parsed, whether the runtime was called, whether the
\* handler raised, whether it logged, and the message id it found.
RecordRx(data, replies, updates, applied, raised, logged) ==
    rx' = [data |-> data, handled |-> TRUE, replies |-> replies, updates |-> updates,
           applied |-> applied, raised |-> raised, changed |-> (Touched' # Touched),
           logged |-> logged, msg_id |-> config_msg_id, swapped |-> Swapped]

\* A return of _process_command that did nothing (virtual_device.py 161, 175, 183).
Ignore(data) ==
    /\ UNCHANGED <<progVars, config_msg_id, answered, log>>
    /\ RecordRx(data, <<>>, <<>>, FALSE, FALSE, FALSE)

\* virtual_device.py lines 173-183: a FRAGMENT_PIXELS datagram.
ProcessFragment(data) ==
    LET payload == Tail(data)
    IN IF Len(payload) < 5 THEN Ignore(data)
       ELSE LET frame_id == payload[1]
                total_fragments == payload[2]
                fragment_index == payload[3]
                count == payload[4] + payload[5] * 256
                updates == parse_updates(SubSeq(payload, 6, Len(payload)), Some(count))
            IN /\ IF HasUpdates(updates)
                  THEN ApplyFragmentUpdates(frame_id, total_fragments, fragment_index,
                                            updates)
                  ELSE UNCHANGED progVars
               /\ UNCHANGED <<config_msg_id, answered, log>>
               /\ RecordRx(data, <<>>, updates, HasUpdates(updates),
                           HasUpdates(updates)
                             /\ WriteUpdates([buf |-> buffers[back_buffer], raised |-> FALSE],
                                             updates, buffer_size).raised,
                           FALSE)

\* virtual_device.py lines 169-171 and 249-274: a QUERY_CONFIG datagram.
ProcessQueryConfig(data) ==
    IF udp_socket = None THEN Ignore(data)
    ELSE LET r == send_device_config(config_payload, config_msg_id)
         IN /\ config_msg_id' = r.counter
            /\ answered' = IF r.took_id THEN answered + 1 ELSE answered
            /\ log' = IF r.logged THEN Append(log, "config too large") ELSE log
            /\ UNCHANGED progVars
            /\ RecordRx(data, r.sent, <<>>, FALSE, r.raised, r.logged)

\* virtual_device.py lines 165-167 and 211-247: a QUERY_INFO datagram.
ProcessQueryInfo(data) ==
    /\ UNCHANGED <<progVars, config_msg_id, answered, log>>
    /\ RecordRx(data,
                IF udp_socket = None THEN <<>>
                ELSE send_device_info(outputs, runtime_pixel_size),
                <<>>, FALSE, FALSE, FALSE)

\* VirtualDeviceServer._process_command (virtual_device.py 159-183) on the
\* receive thread of a constructed server; sendto accepts every datagram.
ProcessCommand(data) ==
    /\ phase = "ready"
    /\ IF Len(data) < 1 THEN Ignore(data)
       ELSE IF IsCommand(data[1], CMD_QUERY_INFO) THEN ProcessQueryInfo(data)
       ELSE IF IsCommand(data[1], CMD_QUERY_CONFIG) THEN ProcessQueryConfig(data)
       ELSE IF IsCommand(data[1], CMD_FRAGMENT_PIXELS) THEN ProcessFragment(data)
       ELSE Ignore(data)
    /\ UNCHANGED <<call, run, concVars, parseVars, runtime_pixel_size, config_payload,
                   running, udp_socket, thread, zeroconf, service_info, sockets,
                   threads, registrations, port_free, srv, properties, loopVars>>

\* The server after a start() that bound the port and registered the service
\* (virtual_device.py 45-62).
Serving ==
    /\ running = TRUE
    /\ udp_socket = Some(1)
    /\ thread = Some(1)
    /\ zeroconf = TRUE
    /\ service_info = TRUE
    /\ sockets = <<"bound">>
    /\ threads = <<"alive">>
    /\ registrations = 1
    /\ log = <<"mdns registered", "started">>
    /\ port_free = TRUE
    /\ srv = [NoStart EXCEPT !.op = "start", !.registrar = "registered", !.changed = TRUE]
    /\ properties = ServiceProperties(outputs)

---------------------------------------------------------------------------
(* SpecDatagram: a running server handles datagrams one at a time while a  *)
(* consumer polls the dirty flag.                                          *)

MaxQueries == 1

RECURSIVE Flatten(_)
Flatten(seqs) == IF seqs = <<>> THEN <<>> ELSE Head(seqs) \o Flatten(Tail(seqs))

FragmentHeader(code, f, t, i, n) == <<code, f, t, i, n % 256, n \div 256>>

\* The records <<index_lo, index_hi, r, g, b>> a fragment carries: none, one
\* for LED 0, or one for no LED of the device followed by one for LED 0.
FragmentBodies ==
    { <<>>, << <<0, 0, 1, 2, 3>> >>, << <<0, 1, 7, 8, 9>>, <<0, 0, 1, 2, 3>> >> }

\* The <<total_fragments, fragment_index>> of the fragments.
FragmentPositions == { <<1, 0>>, <<2, 0>>, <<2, 1>> }

\* Well-formed fragments of two frame ids.
FrameDatagrams ==
    { FragmentHeader(CMD_FRAGMENT_PIXELS, f, p[1], p[2], Len(recs)) \o Flatten(recs) :
        f \in {0, 1}, p \in FragmentPositions, recs \in FragmentBodies }

\* FRAGMENT_PIXELS with fewer than five payload bytes.
ShortDatagrams == { <<CMD_FRAGMENT_PIXELS>> \o SubSeq(<<1, 1, 0, 1>>, 1, x) : x \in 0..4 }

\* The empty datagram and datagrams of unknown commands, bare and with the
\* body of a one-record fragment that would complete a frame.
UnknownCodes == {17, 50, 255}
IgnoredDatagrams ==
    {<<>>} \cup { <<c>> : c \in UnknownCodes }
           \cup { FragmentHeader(c, 1, 1, 0, 1) \o <<0, 0, 1, 2, 3>> : c \in UnknownCodes }

Datagrams ==
    FrameDatagrams \cup ShortDatagrams \cup IgnoredDatagrams
        \cup {<<CMD_QUERY_INFO>>, <<CMD_QUERY_CONFIG>>}

InitDatagram ==
    /\ Ready(StripConfig)
    /\ call = NoCall
    /\ run = NoRun
    /\ NoThreads
    /\ NoParse
    /\ Serving
    /\ runtime_pixel_size = DEFAULT_PIXEL_SIZE
    /\ config_payload = [len |-> 200, salt |-> 7]
    /\ config_msg_id = 0
    /\ rx = NoRx
    /\ answered = 0
    /\ NoLoop

ReceiveDatagram ==
    \E data \in Datagrams :
        /\ (data # <<>> /\ data[1] = CMD_QUERY_CONFIG) => answered < MaxQueries
        /\ ProcessCommand(data)

NextDatagram == ReceiveDatagram \/ Consume

SpecDatagram == InitDatagram /\ [][NextDatagram]_vars

---------------------------------------------------------------------------
(* Command dispatch.                                                       *)

\* The datagram is empty, starts with no known command code, or is a
\* FRAGMENT_PIXELS with fewer than five payload bytes.
IsIgnoredDatagram(data) ==
    \/ data = <<>>
    \/ data[1] \notin {16, 18, 20}
    \/ data[1] = 18 /\ Len(data) - 1 < 5

\* C22: a datagram that is empty, whose first byte is not QUERY_INFO (0x10),
\* FRAGMENT_PIXELS (0x12) or QUERY_CONFIG (0x14), or that is a FRAGMENT_PIXELS
\* with fewer than 5 payload bytes, produces no reply and changes no state:
\* buffers, dirty flag, frame-reassembly fields and config message id.
IgnoredDatagramDoesNothing ==
    (rx.handled /\ IsIgnoredDatagram(rx.data)) =>
        /\ rx.replies = <<>>
        /\ ~rx.changed
        /\ ~rx.applied
        /\ ~rx.logged
        /\ ~rx.raised

\* An unknown command with the body of a frame-completing fragment was
\* handled while a frame was half received, the dirty flag was consumed and
\* a config query had been answered.
IgnoredDatagramDoesNothingWitness ==
    /\ rx.handled
    /\ Len(rx.data) = 11
    /\ rx.data[1] = 50
    /\ frame_fragments_received # {}
    /\ ~dirty
    /\ config_msg_id = 1
    /\ buffers[back_buffer] # buffers[front_buffer]

---------------------------------------------------------------------------
(* SpecQuery: a running server answers config queries, among other         *)
(* datagrams, for config payloads of one to MaxChunks + 1 fragments and    *)
(* for one that needs 256.                                                 *)

MaxChunks == 2
MaxRequests == 2
MaxLogged == 4

PayloadLengths ==
    { n * (1400 - 6) + d : n \in 1..MaxChunks, d \in {0 - 1, 0, 1} }
        \cup { 255 * (1400 - 6) + 1 }

QueryDatagrams ==
    { <<CMD_QUERY_CONFIG>>, <<CMD_QUERY_INFO>>, <<17>>,
      FragmentHeader(CMD_FRAGMENT_PIXELS, 0, 2, 0, 1) \o <<0, 0, 1, 2, 3>> }

InitQuery ==
    /\ Ready(StripConfig)
    /\ call = NoCall
    /\ run = NoRun
    /\ NoThreads
    /\ NoParse
    /\ Serving
    /\ runtime_pixel_size = DEFAULT_PIXEL_SIZE
    /\ \E len \in PayloadLengths : config_payload = [len |-> len, salt |-> 7]
    /\ config_msg_id = 0
    /\ rx = NoRx
    /\ answered = 0
    /\ NoLoop

ReceiveQuery ==
    \E data \in QueryDatagrams :
        /\ data[1] = CMD_QUERY_CONFIG => (answered < MaxRequests /\ Len(log) < MaxLogged)
        /\ ProcessCommand(data)

NextQuery == ReceiveQuery

SpecQuery == InitQuery /\ [][NextQuery]_vars

---------------------------------------------------------------------------
(* SpecCounted: the same server with a payload of two fragments, queried  *)
(* often enough for the message id to wrap.                                *)

MaxWrap == 257

InitCounted ==
    /\ Ready(StripConfig)
    /\ call = NoCall
    /\ run = NoRun
    /\ NoThreads
    /\ NoParse
    /\ Serving
    /\ runtime_pixel_size = DEFAULT_PIXEL_SIZE
    /\ config_payload = [len |-> (1400 - 6) + 1, salt |-> 7]
    /\ config_msg_id = 0
    /\ rx = NoRx
    /\ answered = 0
    /\ NoLoop

ReceiveCounted ==
    \E data \in QueryDatagrams :
        /\ data[1] = CMD_QUERY_CONFIG => answered < MaxWrap
        /\ ProcessCommand(data)

NextCounted == ReceiveCounted

SpecCounted == InitCounted /\ [][NextCounted]_vars

---------------------------------------------------------------------------
(* Config queries.                                                         *)

\* ceil(a / b) for b > 0.
CeilDiv(a, b) == IF a % b = 0 THEN a \div b ELSE a \div b + 1

\* The bytes of a payload.
PayloadBytes(payload) == [i \in 1..payload.len |-> ByteAt(payload, i - 1)]

\* The chunk a fragment datagram carries.
ChunkOf(pkt) == SubSeq(pkt, 7, Len(pkt))

\* The last datagram handled was a QUERY_CONFIG.
ConfigQueried == rx.handled /\ rx.data # <<>> /\ rx.data[1] = 20

\* C23: for a payload of length L and C = 1400 - 6, one QUERY_CONFIG is
\* answered with ceil(L/C) datagrams, with fragmentIndex 0, 1, ... in that
\* order, each carrying that totalFragments, a chunkLength equal to its
\* chunk's length (<= C), and chunks whose concatenation is the payload.
ConfigReplyFragments ==
    (ConfigQueried /\ CeilDiv(config_payload.len, 1400 - 6) <= 255) =>
        /\ Len(rx.replies) = CeilDiv(config_payload.len, 1400 - 6)
        /\ \A k \in 1..Len(rx.replies) :
              LET pkt == rx.replies[k]
              IN /\ Len(pkt) >= 6
                 /\ pkt[1] = 20
                 /\ pkt[3] = CeilDiv(config_payload.len, 1400 - 6)
                 /\ pkt[4] = k - 1
                 /\ pkt[5] + 256 * pkt[6] = Len(ChunkOf(pkt))
                 /\ Len(ChunkOf(pkt)) <= 1400 - 6
        /\ Flatten([k \in 1..Len(rx.replies) |-> ChunkOf(rx.replies[k])])
              = PayloadBytes(config_payload)

\* A payload one byte longer than two full chunks was sent in three
\* fragments, the last of one byte.
ConfigReplyFragmentsWitness ==
    /\ ConfigQueried
    /\ config_payload.len = 2 * (1400 - 6) + 1
    /\ Len(rx.replies) = 3
    /\ Len(rx.replies[1]) = 1400
    /\ Len(rx.replies[3]) = 7

\* C24: the message id advances by one modulo 256 once per QUERY_CONFIG
\* request: the k-th answered request (k = 0, 1, ...) uses k mod 256, all
\* fragments of one response carry it, and no other command changes the
\* counter.
MessageIdCounts ==
    /\ config_msg_id = answered % 256
    /\ (ConfigQueried /\ rx.replies # <<>>) =>
          /\ answered >= 1
          /\ \A k \in 1..Len(rx.replies) : rx.replies[k][2] = (answered - 1) % 256
    /\ (rx.handled /\ ~ConfigQueried) => config_msg_id = rx.msg_id

\* The request after the 256th answered one was answered with message id 0,
\* in two fragments.
MessageIdCountsWitness ==
    /\ ConfigQueried
    /\ answered = 257
    /\ Len(rx.replies) = 2
    /\ rx.replies[1][2] = 0
    /\ rx.replies[2][2] = 0
    /\ config_msg_id = 1

\* C25: when the payload would need more than 255 fragments, a QUERY_CONFIG
\* request sends no datagram at all, logs the failure and leaves the message
\* id counter unchanged.
OversizedConfigRefused ==
    (ConfigQueried /\ CeilDiv(config_payload.len, 1400 - 6) > 255) =>
        /\ rx.replies = <<>>
        /\ rx.logged
        /\ log[Len(log)] = "config too large"
        /\ ~rx.raised
        /\ config_msg_id = rx.msg_id
        /\ answered = 0

\* A payload of 256 fragments was queried.
OversizedConfigRefusedWitness ==
    /\ ConfigQueried
    /\ config_payload.len = 255 * (1400 - 6) + 1
    /\ rx.logged
    /\ Len(log) >= 3

---------------------------------------------------------------------------
(* SpecUpdates: a running server handles FRAGMENT_PIXELS datagrams whose   *)
(* declared update count and body disagree.                                *)

MaxDeclared == 3
MaxRecords == 2

\* The declared counts: up to MaxDeclared, and one that needs the high byte.
DeclaredCounts == 0..MaxDeclared \cup {257}

\* Record j of a body: LED j - 1 with a colour of its own.
BodyRecord(j) == <<j - 1, 0, 10 + j, 20 + j, 30 + j>>

\* k records and x more bytes follow a header that declares n.
TruncatedDatagrams ==
    { FragmentHeader(CMD_FRAGMENT_PIXELS, 0, 2, 0, n)
        \o Flatten([j \in 1..k |-> BodyRecord(j)]) \o SubSeq(<<9, 8, 7, 6>>, 1, x) :
        n \in DeclaredCounts, k \in 0..MaxRecords, x \in 0..4 }

ReceiveTruncated == \E data \in TruncatedDatagrams : ProcessCommand(data)

NextUpdates == ReceiveTruncated

SpecUpdates == InitDatagram /\ [][NextUpdates]_vars

---------------------------------------------------------------------------
(* Update parsing.                                                         *)

\* The last datagram handled was a FRAGMENT_PIXELS with a complete header.
FragmentHandled == rx.handled /\ Len(rx.data) >= 6 /\ rx.data[1] = 18

\* The update count the header of a fragment declares.
DeclaredCount(data) == data[5] + 256 * data[6]

\* The bytes of a fragment after its header.
RemainingBytes(data) == Len(data) - 6

\* C26: for a FRAGMENT_PIXELS datagram that declares updateCount = n and has
\* r bytes after the 5-byte header, exactly min(n, floor(r/5)) updates are
\* parsed, from the consecutive 5-byte records in order; the packet is not
\* rejected for being truncated and trailing bytes are ignored.
ParsesDeclaredOrAvailable ==
    FragmentHandled =>
        LET count == Min(DeclaredCount(rx.data), RemainingBytes(rx.data) \div 5)
        IN /\ Len(rx.updates) = count
           /\ \A j \in 1..count :
                 LET at == 6 + 5 * (j - 1)
                 IN rx.updates[j] = <<rx.data[at + 1] + 256 * rx.data[at + 2],
                                      rx.data[at + 3], rx.data[at + 4], rx.data[at + 5]>>
           /\ count > 0 => rx.applied

\* A fragment that declares 257 updates and carries two records and four
\* more bytes was handled: two updates were parsed and applied.
ParsesDeclaredOrAvailableWitness ==
    /\ FragmentHandled
    /\ DeclaredCount(rx.data) = 257
    /\ RemainingBytes(rx.data) = 14
    /\ Len(rx.updates) = 2
    /\ rx.applied
    /\ buffers[back_buffer] = <<11, 21, 31, 12, 22, 32>>

\* C27: every FRAGMENT_PIXELS datagram with a complete 5-byte header drives
\* the runtime's fragment-reassembly transition for its (frameId,
\* totalFragments, fragmentIndex), also when it carries zero parsable
\* updates: its frame becomes the current one and its index is recorded as
\* received or completes the frame.  No reply is sent for FRAGMENT_PIXELS.
FragmentDrivesReassembly ==
    FragmentHandled =>
        /\ rx.replies = <<>>
        /\ rx.applied
        /\ current_frame_id = Some(rx.data[2])
        /\ (rx.swapped \/ rx.data[4] \in frame_fragments_received)

---------------------------------------------------------------------------
(* SpecInfo: a server built from a config of up to MaxOutputs outputs, or  *)
(* from one with a Linear output longer than 16 bits can count, is started *)
(* and answers QUERY_INFO.                                                 *)

InfoShapes ==
    { SingleOutput, LinearOutput(1), LinearOutput(MaxLen),
      MatrixOutput([width |-> 2, height |-> 1, map |-> <<Some(1), Some(0)>>]),
      MatrixOutput([width |-> 1, height |-> 2, map |-> <<Some(0), None>>]) }

InfoConfigs ==
    { WithIds(s) : s \in UNION { [1..n -> InfoShapes] : n \in 1..MaxOutputs } }

LongConfigs ==
    { WithIds(<<LinearOutput(65535)>>), WithIds(<<LinearOutput(65536)>>),
      WithIds(<<SingleOutput, LinearOutput(65536)>>) }

InitInfo ==
    /\ \E cfg \in InfoConfigs \cup LongConfigs : Ready(cfg)
    /\ call = NoCall
    /\ run = NoRun
    /\ NoThreads
    /\ NoParse
    /\ NoServer
    /\ runtime_pixel_size = DEFAULT_PIXEL_SIZE
    /\ config_payload = [len |-> 200, salt |-> 7]
    /\ config_msg_id = 0
    /\ rx = NoRx
    /\ answered = 0
    /\ NoLoop

\* virtual_device.py lines 144-152: the receive thread of a started server
\* takes a QUERY_INFO datagram from the socket.
ReceiveInfo ==
    /\ running
    /\ thread # None
    /\ threads[Get(thread)] = "alive"
    /\ ProcessCommand(<<CMD_QUERY_INFO>>)

NextInfo == Start \/ ReceiveInfo

SpecInfo == InitInfo /\ [][NextInfo]_vars

---------------------------------------------------------------------------
(* Primary dimensions.                                                     *)

\* The positions of the outputs of a type in a config.
OfType(cfg, type) == { k \in 1..Len(cfg) : cfg[k].output_type = type }

\* The least element of a non-empty set of numbers.
Least(S) == CHOOSE k \in S : \A j \in S : k <= j

\* The primary dimensions a config calls for.
ExpectedDimensions(cfg) ==
    IF OfType(cfg, "Matrix") # {}
    THEN LET o == cfg[Least(OfType(cfg, "Matrix"))]
         IN <<Get(o.matrix).width, Get(o.matrix).height>>
    ELSE IF OfType(cfg, "Linear") # {}
    THEN <<Min(cfg[Least(OfType(cfg, "Linear"))].leds_count, 65535), 1>>
    ELSE <<1, 1>>

\* The number a string of decimal digits denotes.
RECURSIVE DecimalValue(_)
DecimalValue(str) ==
    IF str = <<>> THEN 0
    ELSE DecimalValue(SubSeq(str, 1, Len(str) - 1)) * 10
         + (CHOOSE d \in 0..9 :
                <<"0", "1", "2", "3", "4", "5", "6", "7", "8", "9">>[d + 1] = str[Len(str)])

\* The last datagram handled was a QUERY_INFO.
InfoQueried == rx.handled /\ rx.data = <<16>>

\* C28: the primary dimensions reported by QUERY_INFO and by the discovery
\* properties are the (width, height) of the first Matrix output in config
\* order if there is one (also when a Linear or Single output precedes it),
\* else (min(length, 65535), 1) of the first Linear output, else (1, 1).
PrimaryDimensionsReported ==
    LET dims == ExpectedDimensions(config)
    IN /\ InfoQueried =>
             /\ Len(rx.replies) = 1
             /\ rx.replies[1][3] + 256 * rx.replies[1][4] = dims[1]
             /\ rx.replies[1][5] + 256 * rx.replies[1][6] = dims[2]
       /\ properties # <<>> =>
             /\ DecimalValue(properties.width) = dims[1]
             /\ DecimalValue(properties.height) = dims[2]

\* A Linear output of several LEDs precedes a Matrix of one column and two
\* rows: the info reply and the discovery properties give 1 x 2.
PrimaryDimensionsReportedWitness ==
    /\ InfoQueried
    /\ Len(config) = 2
    /\ config[1].output_type = "Linear"
    /\ config[1].leds_count > 1
    /\ config[2].output_type = "Matrix"
    /\ Get(config[2].matrix).height = 2
    /\ SubSeq(rx.replies[1], 3, 6) = <<1, 0, 2, 0>>
    /\ properties # <<>>
    /\ properties.height = <<"2">>

---------------------------------------------------------------------------
(* virtual_device.py: _udp_loop statement by statement, for the receive    *)
(* thread of a started server, and stop() in its two phases.  The handlers *)
(* of QUERY_INFO, FRAGMENT_PIXELS and unknown commands are single steps;   *)
(* the reply to QUERY_CONFIG is sent one fragment per step.  sendto may    *)
(* fail: with OSError, or with BlockingIOError on the non-blocking socket. *)

MaxArrivals == 2
MaxErrors == 1

\* Mutation of LoopContinues: the loop does not look at the run flag.
LoopContinuesAlways(is_running) == TRUE

\* virtual_device.py line 144: `while self._running`.
LoopContinues(is_running) == is_running

\* Mutation of AfterExcept: an exception ends the loop.
AfterExceptStop(is_running) == "done"

\* virtual_device.py lines 155-157: after `except Exception` the loop goes
\* back to its test, by `continue` or by falling off the end of the body.
AfterExcept(is_running) == "while"

Goes(to) == udp_loop' = [udp_loop EXCEPT !.pc = to]

\* The receive thread is the first thread started.
LoopAlive == Len(threads) >= 1 /\ threads[1] = "alive"

LoopFrame ==
    UNCHANGED <<call, run, concVars, parseVars, runtime_pixel_size, config_payload,
                running, udp_socket, thread, zeroconf, service_info, sockets,
                registrations, port_free, srv, properties, arrived, stopping>>

\* Lines 142-143: the thread takes the server's socket; the assert fails
\* when stop() has already removed it.
LoopBegin ==
    /\ LoopAlive
    /\ udp_loop.pc = "start"
    /\ IF udp_socket = None
       THEN /\ Goes("done")
            /\ threads' = [threads EXCEPT ![1] = "exited"]
       ELSE /\ udp_loop' = [udp_loop EXCEPT !.pc = "while", !.sock = udp_socket]
            /\ UNCHANGED threads
    /\ UNCHANGED <<progVars, config_msg_id, answered, log, rx, inbox, outbox, taken, errors>>
    /\ LoopFrame

\* Line 144.
LoopTest ==
    /\ LoopAlive
    /\ udp_loop.pc = "while"
    /\ IF LoopContinues(running)
       THEN Goes("select") /\ UNCHANGED threads
       ELSE Goes("done") /\ threads' = [threads EXCEPT ![1] = "exited"]
    /\ UNCHANGED <<progVars, config_msg_id, answered, log, rx, inbox, outbox, taken, errors>>
    /\ LoopFrame

\* Lines 146-148: select raises on a closed socket, reports the socket
\* readable when a datagram is queued, and else times out after 50 ms.
LoopSelect ==
    /\ LoopAlive
    /\ udp_loop.pc = "select"
    /\ IF sockets[Get(udp_loop.sock)] = "closed" THEN Goes("except")
       ELSE IF inbox # <<>> THEN Goes("recv")
       ELSE Goes("while")
    /\ UNCHANGED <<progVars, config_msg_id, answered, log, rx, inbox, outbox, taken, errors,
                   threads>>
    /\ LoopFrame

\* Lines 149-154: recvfrom raises OSError on a closed socket and
\* BlockingIOError (break) when nothing is queued.
LoopRecv ==
    /\ LoopAlive
    /\ udp_loop.pc = "recv"
    /\ IF sockets[Get(udp_loop.sock)] = "closed"
       THEN Goes("except") /\ UNCHANGED <<inbox, taken>>
       ELSE IF inbox = <<>>
       THEN Goes("while") /\ UNCHANGED <<inbox, taken>>
       ELSE /\ udp_loop' = [udp_loop EXCEPT !.pc = "process", !.data = Head(inbox)]
            /\ inbox' = Tail(inbox)
            /\ taken' = taken + 1
    /\ UNCHANGED <<progVars, config_msg_id, answered, log, rx, outbox, errors, threads>>
    /\ LoopFrame

\* Lines 159-183, and 249-263 for QUERY_CONFIG: _process_command up to the
\* first sendto of a config reply.
LoopProcess ==
    /\ LoopAlive
    /\ udp_loop.pc = "process"
    /\ LET data == udp_loop.data
           total_fragments == TotalFragments(config_payload.len)
       IN IF Len(data) >= 1 /\ ~IsCommand(data[1], CMD_QUERY_INFO)
                /\ IsCommand(data[1], CMD_QUERY_CONFIG)
          THEN /\ UNCHANGED <<progVars, rx>>
               /\ IF udp_socket = None
                  THEN /\ Goes("recv")
                       /\ UNCHANGED <<config_msg_id, answered, log>>
                  ELSE IF TooManyFragments(total_fragments)
                  THEN /\ Goes("recv")
                       /\ log' = Append(log, "config too large")
                       /\ UNCHANGED <<config_msg_id, answered>>
                  ELSE /\ udp_loop' = [udp_loop EXCEPT
                                         !.pc = IF total_fragments = 0 THEN "recv" ELSE "send",
                                         !.msg_id = config_msg_id % 256,
                                         !.total_fragments = total_fragments,
                                         !.frag_idx = 0]
                       /\ config_msg_id' = NextMsgId(config_msg_id)
                       /\ answered' = answered + 1
                       /\ UNCHANGED log
          ELSE /\ Goes("recv")
               /\ IF Len(data) < 1 THEN Ignore(data)
                  ELSE IF IsCommand(data[1], CMD_QUERY_INFO) THEN ProcessQueryInfo(data)
                  ELSE IF IsCommand(data[1], CMD_FRAGMENT_PIXELS) THEN ProcessFragment(data)
                  ELSE Ignore(data)
    /\ UNCHANGED <<inbox, outbox, taken, errors, threads>>
    /\ LoopFrame

\* Lines 265-274: one iteration of the send loop.  self._udp_socket is read
\* anew: after stop() it is None and the call raises AttributeError.
LoopSend ==
    /\ LoopAlive
    /\ udp_loop.pc = "send"
    /\ IF udp_socket = None
       THEN /\ Goes("except")
            /\ errors' = errors + 1
            /\ UNCHANGED outbox
       ELSE \/ /\ sockets[Get(udp_socket)] # "closed"
               /\ outbox' = Append(outbox, <<udp_loop.msg_id, udp_loop.frag_idx>>)
               /\ udp_loop' = [udp_loop EXCEPT
                                 !.pc = IF udp_loop.frag_idx + 1 = udp_loop.total_fragments
                                        THEN "recv" ELSE "send",
                                 !.frag_idx = udp_loop.frag_idx + 1]
               /\ UNCHANGED errors
            \/ /\ errors < MaxErrors
               /\ \E raised \in {"OSError", "BlockingIOError"} :
                     Goes(IF raised = "BlockingIOError" THEN "while" ELSE "except")
               /\ errors' = errors + 1
               /\ UNCHANGED outbox
    /\ UNCHANGED <<progVars, config_msg_id, answered, log, rx, inbox, taken, threads>>
    /\ LoopFrame

\* Lines 155-157.
LoopExcept ==
    /\ LoopAlive
    /\ udp_loop.pc = "except"
    /\ Goes(AfterExcept(running))
    /\ threads' = IF AfterExcept(running) = "done"
                  THEN [threads EXCEPT ![1] = "exited"] ELSE threads
    /\ UNCHANGED <<progVars, config_msg_id, answered, log, rx, inbox, outbox, taken, errors>>
    /\ LoopFrame

\* The datagrams that arrive: a config query, an unknown command and a
\* fragment with one update.
LoopDatagrams ==
    { <<CMD_QUERY_CONFIG>>, <<17>>,
      FragmentHeader(CMD_FRAGMENT_PIXELS, 0, 2, 0, 1) \o <<0, 0, 1, 2, 3>> }

\* Environment: a datagram arrives at the bound port.
Arrive ==
    /\ arrived < MaxArrivals
    /\ \E k \in 1..Len(sockets) : sockets[k] = "bound"
    /\ \E data \in LoopDatagrams : inbox' = Append(inbox, data)
    /\ arrived' = arrived + 1
    /\ UNCHANGED <<progVars, call, run, concVars, parseVars, serverVars, netVars,
                   udp_loop, outbox, taken, errors, stopping>>

\* VirtualDeviceServer.stop on a running server up to the join
\* (virtual_device.py 64-86).
StopCall ==
    /\ running
    /\ stopping.pc = "none"
    /\ running' = FALSE
    /\ sockets' = IF udp_socket = None THEN sockets
                  ELSE [sockets EXCEPT ![Get(udp_socket)] = "closed"]
    /\ udp_socket' = None
    /\ IF zeroconf /\ service_info
       THEN zeroconf' = FALSE /\ service_info' = FALSE
       ELSE UNCHANGED <<zeroconf, service_info>>
    /\ stopping' = [pc |-> "joining", found |-> udp_loop.pc]
    /\ UNCHANGED <<progVars, call, run, concVars, parseVars, netVars, thread, threads,
                   registrations, log, port_free, srv, properties, inbox, udp_loop,
                   outbox, arrived, taken, errors>>

\* VirtualDeviceServer.stop from the join on (virtual_device.py 88-92):
\* join(timeout=1.0) returns when the thread has ended or the second is over.
StopJoin ==
    /\ stopping.pc = "joining"
    /\ thread' = None
    /\ log' = Append(log, "stopped")
    /\ stopping' = [stopping EXCEPT !.pc = "returned"]
    /\ UNCHANGED <<progVars, call, run, concVars, parseVars, netVars, running, udp_socket,
                   zeroconf, service_info, sockets, threads, registrations, port_free,
                   srv, properties, inbox, udp_loop, outbox, arrived, taken, errors>>

InitLoop ==
    /\ Ready(StripConfig)
    /\ call = NoCall
    /\ run = NoRun
    /\ NoThreads
    /\ NoParse
    /\ Serving
    /\ runtime_pixel_size = DEFAULT_PIXEL_SIZE
    /\ config_payload = [len |-> (1400 - 6) + 1, salt |-> 7]
    /\ config_msg_id = 0
    /\ rx = NoRx
    /\ answered = 0
    /\ NoLoop

LoopSteps ==
    LoopBegin \/ LoopTest \/ LoopSelect \/ LoopRecv \/ LoopProcess \/ LoopSend \/ LoopExcept

---------------------------------------------------------------------------
(* SpecLoop: the receive loop of a server that stays Running.  The thread  *)
(* is scheduled again and again (weak fairness of its steps).              *)

NextLoop ==
    \/ Arrive
    \/ LoopBegin
    \/ LoopTest
    \/ LoopSelect
    \/ LoopRecv
    \/ LoopProcess
    \/ LoopSend
    \/ LoopExcept

SpecLoop == InitLoop /\ [][NextLoop]_vars /\ WF_vars(LoopSteps)

---------------------------------------------------------------------------
(* SpecStop: the same server is stopped at any moment, once, and not       *)
(* started again.  stop() returns from its bounded join.                   *)

NextStop ==
    \/ Arrive
    \/ LoopBegin
    \/ LoopTest
    \/ LoopSelect
    \/ LoopRecv
    \/ LoopProcess
    \/ LoopSend
    \/ LoopExcept
    \/ StopCall
    \/ StopJoin

SpecStop == InitLoop /\ [][NextStop]_vars /\ WF_vars(LoopSteps) /\ WF_vars(StopJoin)

---------------------------------------------------------------------------
(* Receive loop.                                                           *)

\* The receive thread is between two readiness events: nothing is queued
\* and no datagram is being processed.
LoopIdle ==
    /\ threads[1] = "alive"
    /\ inbox = <<>>
    /\ udp_loop.pc \in {"while", "select"}

\* C29: an error raised while one datagram is processed does not end the
\* receive loop: while the server stays Running, the datagrams that arrive
\* after the failing one are still received and processed.
ErrorDoesNotEndLoop == (errors > 0) ~> LoopIdle

\* The first datagram taken failed in sendto and the second one has been
\* received and is being processed.
ErrorDoesNotEndLoopWitness ==
    /\ errors = 1
    /\ taken = 2
    /\ udp_loop.pc = "process"
    /\ threads[1] = "alive"

\* C30: after stop() is called on a running server the receive loop
\* terminates, whatever it was doing (waiting in select, draining datagrams
\* or sending a fragmented reply), and stop() returns.
StopEndsLoop ==
    (stopping.pc = "joining") ~> (stopping.pc = "returned" /\ threads[1] = "exited")

\* stop() was called between two fragments of a config reply: the next
\* sendto raised, the loop ended and stop() returned.
StopEndsLoopWitness ==
    /\ stopping.pc = "returned"
    /\ stopping.found = "send"
    /\ Len(outbox) = 1
    /\ errors = 1
    /\ threads[1] = "exited"


---------------------------------------------------------------------------
(* Claims about the construction of a runtime, checked under SpecBuild.    *)

\* C31: DeviceRuntime(config) with a config of zero outputs raises ValueError
\* and leaves no runtime: no output, no buffer of any size, no frame state;
\* a runtime exists only for a config with at least one output.
ZeroOutputsFatal ==
    /\ phase = "ready" => Len(config) > 0
    /\ (phase # "new" /\ Len(config) = 0) =>
          /\ phase = "failed"
          /\ outputs = <<>>
          /\ total_leds = 0
          /\ buffer_size = 0
          /\ buffers = [h \in {0, 1} |-> <<>>]
          /\ ~dirty
          /\ current_frame_id = None
          /\ frame_fragments_received = {}
          /\ frame_total_fragments = 0

ZeroOutputsFatalWitness == phase = "failed" /\ Len(config) = 0

---------------------------------------------------------------------------
(* SpecOrigin: the frame state machine with, for every LED of each of the  *)
(* two buffers, the fate of the frame whose fragment wrote its value:      *)
(* "initial" (the zeros of the constructor), "open" (a fragment of the     *)
(* frame being received), "closed" (a frame that was swapped in by its     *)
(* fragment count or by a matching frame end), "abandoned" (a frame that   *)
(* was still open when a fragment of another frame id arrived).  frame_id  *)
(* is the frame id of the last call, total the total the last fragment     *)
(* declared, prev and prev_frame_id are the record and the frame id of the *)
(* call before the last.                                                   *)

Leds == 0..(RuntimeOf(StripConfig).total_leds - 1)

\* A fragment with another frame id abandons the frame that was open.
Abandon(origin) == [l \in Leds |-> IF origin[l] = "open" THEN "abandoned" ELSE origin[l]]
\* A swap closes the frame that was open.
Close(origin) == [l \in Leds |-> IF origin[l] = "open" THEN "closed" ELSE origin[l]]

TrackOrigin(f, t, u) ==
    LET before == IF IsNewFrame(current_frame_id, f)
                  THEN Abandon(run.origin[back_buffer])
                  ELSE run.origin[back_buffer]
        written == [l \in Leds |->
                       IF \E k \in 1..Len(u) : u[k][1] = l THEN "open" ELSE before[l]]
    IN run' = [origin |-> [run.origin EXCEPT
                   ![back_buffer] = IF Swapped THEN Close(written) ELSE written],
               frame_id |-> f, total |-> t, prev |-> call,
               prev_frame_id |-> run.frame_id]

InitOrigin ==
    /\ Ready(StripConfig)
    /\ call = NoCall
    /\ run = [origin |-> [h \in {0, 1} |-> [l \in Leds |-> "initial"]],
              frame_id |-> 0, total |-> 0, prev |-> NoCall, prev_frame_id |-> 0]
    /\ NoThreads
    /\ NoExt

\* The frame ids of the calls: the current frame and one other.
OriginFrameIds == {0, 1}

OriginFragment ==
    \E f \in OriginFrameIds, t \in Totals, i \in Indices, u \in FrameUpdateLists :
        /\ ApplyFragmentUpdates(f, t, i, u)
        /\ TrackOrigin(f, t, u)
        /\ RecordFragment(f, t)
        /\ UNCHANGED <<concVars, extVars>>

OriginFrameEnd ==
    \E f \in OriginFrameIds :
        /\ ApplyFrameEnd(f)
        /\ run' = [origin |-> [run.origin EXCEPT
                      ![back_buffer] = IF Swapped THEN Close(@) ELSE @],
                   frame_id |-> f, total |-> run.total, prev |-> call,
                   prev_frame_id |-> run.frame_id]
        /\ call' = [NoCall EXCEPT !.op = "apply_frame_end", !.swapped = Swapped]
        /\ UNCHANGED <<concVars, extVars>>

NextOrigin == OriginFragment \/ OriginFrameEnd

SpecOrigin == InitOrigin /\ [][NextOrigin]_vars

\* C32: every LED value visible in the front buffer is a constructor zero or
\* was written by a fragment of a frame that was closed; no write of a frame
\* that was abandoned for another frame id is ever in front.
FrontShowsOnlyClosedFrames ==
    \A l \in Leds : run.origin[front_buffer][l] \in {"initial", "closed"}

\* C33: a frame end for frame F that directly follows the fragment which
\* completed F by fragment count does not swap again: front still holds F.
FrameEndAfterCountKeepsFront ==
    (/\ call.op = "apply_frame_end"
     /\ run.prev.op = "apply_fragment_updates"
     /\ run.prev.swapped
     /\ run.prev_frame_id = run.frame_id) => ~call.swapped

---------------------------------------------------------------------------
(* Claims about the two buffers, checked under SpecPixels.                 *)

\* C34: no call changes a byte of the buffer that is front when the call
\* starts; the content seen through front changes only when the call swaps.
FrontChangesOnlyAtSwap ==
    [][/\ buffers'[front_buffer] = buffers[front_buffer]
       /\ buffers'[front_buffer'] # buffers[front_buffer] => front_buffer' # front_buffer]_vars

\* A fragment changed the back buffer, did not swap, and front is as it was.
FrontChangesOnlyAtSwapWitness ==
    /\ call.op = "apply_fragment_updates"
    /\ call.changed
    /\ ~call.swapped
    /\ buffers[front_buffer] = call.ref_front
    /\ buffers[back_buffer] = call.ref_back
    /\ buffers[back_buffer] # buffers[front_buffer]

\* C35: whenever no call is inside the lock, front and back are two distinct
\* buffer objects of total_leds * 3 bytes each; a swap stores the references
\* the other way round and writes no byte, so the new front is the old back
\* and the new back is the old front, byte for byte.
BuffersDistinctSwapExchanges ==
    [][/\ buffer_lock' = None =>
             /\ front_buffer' # back_buffer'
             /\ {front_buffer', back_buffer'} = DOMAIN buffers'
             /\ \A h \in DOMAIN buffers' : Len(buffers'[h]) = total_leds' * 3
       /\ pc["receive"] \in {"swap_front", "swap_back"} => buffers' = buffers
       /\ pc["receive"] = "swap_front" => front_buffer' = back_buffer
       /\ pc["receive"] = "swap_back" =>
             /\ front_buffer' = front_buffer
             /\ back_buffer' \in DOMAIN buffers \ {front_buffer}]_vars

\* Two swaps are over: the references are back where they started and the
\* two buffers hold different bytes.
BuffersDistinctSwapExchangesWitness ==
    /\ buffer_lock = None
    /\ front_buffer = 0
    /\ back_buffer = 1
    /\ buffers[0] = <<1, 2, 3, 1, 2, 3>>
    /\ buffers[1] = <<1, 2, 3, 0, 0, 0>>

---------------------------------------------------------------------------
(* Claims about the received set at rest, checked under SpecOrigin, where  *)
(* every state is one between two calls: the lock is free.                 *)

\* The received set is empty or holds fewer indices than the stored total.
SetBelowTotal ==
    \/ frame_fragments_received = {}
    \/ Cardinality(frame_fragments_received) < frame_total_fragments

\* C36 as stated: between calls the received set is empty or below the stored
\* total, and every fragment that declares a total of 0 or 1 swaps in its call.
CompletedSetNeverRests ==
    /\ SetBelowTotal
    /\ (call.op = "apply_fragment_updates" /\ run.total <= 1) => call.swapped

\* C36 amended: between calls the received set is empty or below the stored
\* total; a fragment swaps in its call whenever the total stored after it is 0
\* or 1, in particular when it starts another frame id and declares 0 or 1; a
\* fragment of the current frame id is counted against the stored total
\* whatever it declares.
CompletedSetNeverRestsStored ==
    /\ SetBelowTotal
    /\ (call.op = "apply_fragment_updates" /\ frame_total_fragments <= 1) => call.swapped
    /\ (call.op = "apply_fragment_updates" /\ call.reset /\ run.total <= 1) => call.swapped
    /\ (call.op = "apply_fragment_updates" /\ ~call.swapped) =>
           frame_fragments_received # {}

\* A fragment of the current frame declared a total of 1 against a stored total
\* of 2 and did not swap: its index rests in the set.
CompletedSetNeverRestsStoredWitness ==
    /\ call.op = "apply_fragment_updates"
    /\ call.mismatch
    /\ run.total = 1
    /\ frame_total_fragments = 2
    /\ ~call.swapped
    /\ Cardinality(frame_fragments_received) = 1

---------------------------------------------------------------------------
(* Claims about a failed start, checked under SpecServer.                  *)

\* C37: after a start() whose bind failed the server is Stopped: the running
\* flag is false and no socket is held; start() returns without doing
\* anything only on a server whose socket is bound, so a start() after a
\* failed one binds again.
FailedStartLeavesStopped ==
    /\ (srv.op = "start" /\ srv.bind_failed) => (~running /\ udp_socket = None)
    /\ (srv.op = "start" /\ srv.was_running) =>
          (udp_socket # None /\ sockets[Get(udp_socket)] = "bound")

---------------------------------------------------------------------------
(* SpecPoll: the receive thread and the GUI thread as the main window runs *)
(* it.  The refresh timer (main_window.py 107-110, 640-644) calls          *)
(* consume_dirty and, when it returned true, preview_widget.update(),      *)
(* which schedules a paint; paintEvent (preview.py 23-37) calls            *)
(* fill_output_buffers.  call.op = "update" says that a paint is           *)
(* scheduled; updates scheduled before the paint runs are merged.          *)

\* main_window.py 642-643: the call returns to the timer handler.
PollReturn(t) ==
    /\ Unlock(t)
    /\ call' = IF loc[t].op = "consume_dirty" /\ loc[t].ret
               THEN [NoCall EXCEPT !.op = "update"]
               ELSE call

\* preview.py 23-37: the scheduled paint runs and enters fill_output_buffers.
Paint(t) ==
    /\ call.op = "update"
    /\ Enter(t, "fill_output_buffers", "fo_view", NoLocals)
    /\ call' = NoCall
    /\ UNCHANGED <<progVars, run, extVars, need_refresh, owed, consumed, whole, snap>>

\* The statements of the receive thread inside a call.
ReceiveInside ==
    \/ FragmentReset("receive") \/ FragmentWrite("receive") \/ FragmentAdd("receive")
    \/ FrameEndTest("receive")
    \/ SwapFront("receive") \/ SwapBack("receive")
    \/ SwapDirty("receive") \/ SwapClear("receive")
    \/ PollReturn("receive")

\* The statements of the GUI thread inside a call.
ConsumerInside ==
    \/ ConsumeTest("consumer") \/ ConsumeClear("consumer")
    \/ FillView("consumer") \/ FillOne("consumer")
    \/ PollReturn("consumer")

NextPoll ==
    \/ FragmentEnter("receive") \/ FrameEndEnter("receive")
    \/ ReceiveInside
    \/ ConsumeEnter("consumer") \/ Paint("consumer")
    \/ ConsumerInside

\* A thread inside a call keeps running; the timer keeps firing and a
\* scheduled paint is delivered: a thread waiting for the lock gets it when
\* the lock is released again and again.
SpecPoll ==
    /\ InitThreads
    /\ [][NextPoll]_vars
    /\ WF_vars(ReceiveInside)
    /\ WF_vars(ConsumerInside)
    /\ SF_vars(ConsumeEnter("consumer"))
    /\ SF_vars(Paint("consumer"))

\* Every render buffer holds what fill_output_buffers makes of the front buffer.
RenderIsFront ==
    \A j \in 1..Len(outputs) :
        outputs[j].render_buffer = Rendered(outputs[j], buffers[front_buffer])

\* C38: once the swaps stop, the polling consumer eventually fills the render
\* buffers from the final front buffer, and they stay so.
LatestFrameRendered == (<>[][front_buffer' = front_buffer]_vars) => <>[]RenderIsFront

\* After two swaps the consumer has painted the frame that is in front and
\* nothing is scheduled or owed.
LatestFrameRenderedWitness ==
    /\ RenderIsFront
    /\ front_buffer = 0
    /\ buffers[0] = <<1, 2, 3, 1, 2, 3>>
    /\ \A t \in Threads : pc[t] = "idle"
    /\ ~dirty
    /\ call = NoCall

---------------------------------------------------------------------------
(* SpecAlone: the standalone device (virtual_led_device.py).  Its listener *)
(* thread ("receive": _udp_listener, _process_command) and its main loop   *)
(* ("consumer": _main_loop, _render, _fill_output_buffers) share the two   *)
(* buffers, the frame state and buffer_lock, attributes named as in        *)
(* DeviceRuntime, and need_refresh, which the main loop reads and clears   *)
(* without the lock.  owed = "swap" says that a swap has happened whose    *)
(* front buffer no render has read yet.                                    *)

\* What no statement of the standalone device's two threads changes.
aloneKept ==
    <<config, phase, total_leds, canvas_width, canvas_height, buffer_size, dirty,
      call, run, consumed, whole, snap, extVars>>

\* virtual_led_device.py 685-695: a FRAGMENT_PIXELS datagram reaches the lock.
ListenerFragmentEnter(t) ==
    \E a \in ThreadFragments :
        /\ Enter(t, "process_command", "vl_apply",
                 [NoLocals EXCEPT !.frame_id = a[1], !.total_fragments = a[2],
                                  !.fragment_index = a[3], !.updates = a[4]])
        /\ UNCHANGED <<aloneKept, outputs, bufVars, frameVars, owed, need_refresh>>

\* virtual_led_device.py 696-715: reset, pixel writes, index, completion test.
ListenerApply(t) ==
    LET reset == IsNewFrame(current_frame_id, loc[t].frame_id)
        received == (IF reset THEN {} ELSE frame_fragments_received)
                        \cup {loc[t].fragment_index}
        total == IF reset THEN loc[t].total_fragments ELSE frame_total_fragments
    IN /\ pc[t] = "vl_apply"
       /\ current_frame_id' = Some(loc[t].frame_id)
       /\ frame_total_fragments' = total
       /\ frame_fragments_received' = received
       /\ buffers' = [buffers EXCEPT ![back_buffer] =
                         WriteUpdates([buf |-> @, raised |-> FALSE],
                                      loc[t].updates, buffer_size).buf]
       /\ Goto(t, IF FrameComplete(received, total) THEN "vl_swap" ELSE "vl_release")
       /\ UNCHANGED <<aloneKept, outputs, front_buffer, back_buffer, buffer_lock, loc,
                      owed, need_refresh>>

\* virtual_led_device.py 721-725: a FRAME_END datagram reaches the lock.
ListenerFrameEndEnter(t) ==
    \E f \in ThreadFrameEnds :
        /\ Enter(t, "process_command", "vl_end", [NoLocals EXCEPT !.frame_id = f])
        /\ UNCHANGED <<aloneKept, outputs, bufVars, frameVars, owed, need_refresh>>

\* virtual_led_device.py 726.
ListenerFrameEndTest(t) ==
    /\ pc[t] = "vl_end"
    /\ Goto(t, IF FrameEndMatches(current_frame_id, loc[t].frame_id)
               THEN "vl_swap" ELSE "vl_release")
    /\ UNCHANGED <<aloneKept, outputs, bufVars, frameVars, buffer_lock, loc, owed,
                   need_refresh>>

\* virtual_led_device.py 716, 727: the two buffers are exchanged.
ListenerSwap(t) ==
    /\ pc[t] = "vl_swap"
    /\ front_buffer' = back_buffer
    /\ back_buffer' = front_buffer
    /\ owed' = "swap"
    /\ Goto(t, "vl_flag")
    /\ UNCHANGED <<aloneKept, outputs, buffers, frameVars, buffer_lock, loc, need_refresh>>

\* virtual_led_device.py 717, 728: self.need_refresh = True.
ListenerFlag(t) ==
    /\ pc[t] = "vl_flag"
    /\ need_refresh' = TRUE
    /\ Goto(t, "vl_clear")
    /\ UNCHANGED <<aloneKept, outputs, bufVars, frameVars, buffer_lock, loc, owed>>

\* virtual_led_device.py 718, 729.
ListenerClear(t) ==
    /\ pc[t] = "vl_clear"
    /\ frame_fragments_received' = {}
    /\ Goto(t, "vl_release")
    /\ UNCHANGED <<aloneKept, outputs, bufVars, current_frame_id, frame_total_fragments,
                   buffer_lock, loc, owed, need_refresh>>

\* The end of the listener's `with self.buffer_lock`.
ListenerRelease(t) ==
    /\ pc[t] = "vl_release"
    /\ buffer_lock' = None
    /\ loc' = [loc EXCEPT ![t] = NoLocals]
    /\ Goto(t, "idle")
    /\ UNCHANGED <<aloneKept, outputs, bufVars, frameVars, owed, need_refresh>>

\* virtual_led_device.py 803: `if self.need_refresh and ...`, read without the lock.
RefreshWanted(flag) == flag

\* virtual_led_device.py 803-804: the main loop decides to render.
MainTest(t) ==
    /\ phase = "ready"
    /\ pc[t] = "idle"
    /\ RefreshWanted(need_refresh)
    /\ Goto(t, "ml_render")
    /\ UNCHANGED <<aloneKept, outputs, bufVars, frameVars, buffer_lock, loc, owed,
                   need_refresh>>

\* virtual_led_device.py 765, 734: _render calls _fill_output_buffers, which
\* takes the lock.
MainFillEnter(t) ==
    /\ pc[t] = "ml_render"
    /\ CanAcquire(buffer_lock)
    /\ buffer_lock' = Some(t)
    /\ Goto(t, "ml_view")
    /\ UNCHANGED <<aloneKept, outputs, bufVars, frameVars, loc, owed, need_refresh>>

\* virtual_led_device.py 735: front = memoryview(self.front_buffer).
MainFillView(t) ==
    /\ pc[t] = "ml_view"
    /\ loc' = [loc EXCEPT ![t].front = front_buffer]
    /\ owed' = "none"
    /\ Goto(t, "ml_fill")
    /\ UNCHANGED <<aloneKept, outputs, bufVars, frameVars, buffer_lock, need_refresh>>

\* virtual_led_device.py 736-759: every output is filled, then the lock is released.
MainFill(t) ==
    /\ pc[t] = "ml_fill"
    /\ outputs' = [k \in 1..Len(outputs) |->
                      [outputs[k] EXCEPT
                          !.render_buffer = FillOutput(outputs[k], buffers[loc[t].front])]]
    /\ buffer_lock' = None
    /\ Goto(t, "ml_clear")
    /\ UNCHANGED <<aloneKept, bufVars, frameVars, loc, owed, need_refresh>>

\* virtual_led_device.py 805: self.need_refresh = False, after _render returned.
MainClear(t) ==
    /\ pc[t] = "ml_clear"
    /\ need_refresh' = FALSE
    /\ Goto(t, "idle")
    /\ UNCHANGED <<aloneKept, outputs, bufVars, frameVars, buffer_lock, loc, owed>>

\* VirtualLEDDevice.__init__ (virtual_led_device.py 319-358): need_refresh is True.
InitAlone ==
    /\ Ready(StripConfig)
    /\ call = NoCall
    /\ run = NoRun
    /\ NoThreads
    /\ NoExt

NextAlone ==
    \/ ListenerFragmentEnter("receive") \/ ListenerApply("receive")
    \/ ListenerFrameEndEnter("receive") \/ ListenerFrameEndTest("receive")
    \/ ListenerSwap("receive") \/ ListenerFlag("receive")
    \/ ListenerClear("receive") \/ ListenerRelease("receive")
    \/ MainTest("consumer") \/ MainFillEnter("consumer")
    \/ MainFillView("consumer") \/ MainFill("consumer") \/ MainClear("consumer")

SpecAlone == InitAlone /\ [][NextAlone]_vars

\* C39: no swap of the listener is lost.  Whenever the listener is outside
\* its locked block and a swap has happened whose front buffer no render has
\* read yet, a render is still to come: need_refresh is set or the main loop
\* has decided to render and has not read the front buffer yet.  (In a state
\* that violates this the main loop renders again only if a later datagram
\* causes another swap: the swap is never followed by a render.)
SwapIsRendered ==
    (owed = "swap" /\ pc["receive"] = "idle") =>
        (need_refresh \/ pc["consumer"] \in {"ml_render", "ml_view"})


---------------------------------------------------------------------------
(* config.py line 180 takes pixel_size as int(...) with no range check, so  *)
(* a validated config may carry a pixel size that does not fit the 16-bit  *)
(* field of the QUERY_INFO reply.                                          *)

\* config.py line 180: pixel sizes the validator accepts, inside and outside
\* the range of an unsigned 16-bit field.
WidePixelSizes == {DEFAULT_PIXEL_SIZE, 0, 65535, 65536, -1}

\* runtime.py line 40: the runtime of a validated config keeps its pixel size.
InitWide ==
    /\ \E cfg \in InfoConfigs : Ready(cfg)
    /\ call = NoCall
    /\ run = NoRun
    /\ NoThreads
    /\ NoParse
    /\ NoServer
    /\ runtime_pixel_size \in WidePixelSizes
    /\ config_payload = [len |-> 200, salt |-> 7]
    /\ config_msg_id = 0
    /\ rx = NoRx
    /\ answered = 0
    /\ NoLoop

SpecWide == InitWide /\ [][NextInfo]_vars

\* C40: every QUERY_INFO datagram received while the server is running is
\* answered with exactly one reply, whatever widths, heights and pixel sizes
\* the validated config carries, and handling it leaves the runtime (buffers,
\* dirty flag, frame state) and the config message id as they were.
InfoAlwaysAnswered ==
    [][ReceiveInfo =>
          /\ Len(rx'.replies) = 1
          /\ UNCHANGED <<progVars, config_msg_id>>]_vars

====
